---- MODULE Spec2Model ----
(***************************************************************************)
(* A model of the ALICE bot's BSC scanner core (src/core/scanner.py) and   *)
(* of its caller (src/base.py):                                            *)
(*   - RateLimiter.wait(), step by step, for several calling threads;      *)
(*   - BSCScanner.scan_wallet_transactions / _get_token_transfers as one   *)
(*     scanning thread talking to a nondeterministic API;                  *)
(*   - _validate_wallet_address and _process_transactions as operators     *)
(*     applied to inputs drawn from bounded sets.                          *)
(* Time is counted in ticks; TicksPerSecond ticks make the limiter's 1.0 s.*)
(***************************************************************************)
EXTENDS Integers, Sequences, FiniteSets, TLC

\* ------------------------------------------------------------------ bounds
NumThreads == 2
MaxLimit == 2
MaxClock == 4
TicksPerSecond == 2
MaxCalls == 4

Threads == 1..NumThreads
NoThread == 0

VARIABLES
    clock,      \* time.time(), in ticks
    limit,      \* RateLimiter.limit
    requests,   \* RateLimiter.requests: the admission timestamps kept
    lock,       \* RateLimiter.lock: NoThread, or the thread holding it
    pc,         \* each thread's position inside RateLimiter.wait()
    now,        \* each thread's local `now`
    wakeAt,     \* the clock value at which a sleeping thread's time.sleep ends
    admitted,   \* history: every timestamp ever recorded by line 300, in order
    calls       \* history: the number of wait() calls started

VARIABLES
    addrInput,    \* the string handed to the address validators
    addrPc,       \* "input", then "done" once both validators have run
    addrScanner,  \* what BSCScanner._validate_wallet_address returned
    addrUtils     \* what AddressValidator.is_valid_bsc_address returned

rlVars == <<clock, limit, requests, lock, pc, now, wakeAt, admitted, calls>>
VARIABLES
    normInput,   \* raw_transactions handed to _process_transactions
    normNow,     \* datetime.now(timezone.utc), in seconds since the epoch
    normPc,      \* "input", then "done" once _process_transactions returned
    normOut,     \* what _process_transactions returned and reported
    normLoop     \* the locals of _process_transactions while it runs a long batch

VARIABLES
    scanPc,        \* the scanning thread's position in scan_wallet_transactions
    scanAddr,      \* wallet_address of the scan
    requestCount,  \* BSCScanner.request_count
    scanLock,      \* BSCScanner.lock: NoThread, or the thread holding it
    sent,          \* history: the number of HTTP requests sent
    attempts,      \* history: the HTTP requests sent in this scan
    envelope,      \* the response to the last HTTP request
    fetched,       \* what _get_token_transfers returned
    events,        \* the events of this scan, as <<kind, category>> in order
    critical,      \* history: display_critical_error calls of this scan
    normRuns,      \* history: _process_transactions calls of this scan
    scanReturn,    \* how scan_wallet_transactions ended: [raised, value]
    scanError,     \* the message of the exception the scan caught, or "none"
    scans,         \* history: the number of scans started
    atStart,       \* history: admissions, requests sent and request_count at the start of the scan
    runReport      \* what run_scan made of the last scan's return value

VARIABLES
    argv,        \* sys.argv as main reads it
    configFile,  \* the credentials file: what it holds under bscscan_api_key
    mainPc,      \* the position of main()
    apiKey,      \* how Config.get_api_key ended: [raised, message, key]
    printed,     \* what main, initialize and confirm_scan printed, in order
    exitStatus,  \* the exit status of the process once main is over
    outputFile,  \* result/<output_file>: whether it exists, and its lines
    runReturn    \* what run_scan returned: "True" or "False", "none" before

addrVars == <<addrInput, addrPc, addrScanner, addrUtils>>
normVars == <<normInput, normNow, normPc, normOut, normLoop>>
scanVars == <<scanPc, scanAddr, requestCount, scanLock, sent, attempts, envelope, fetched, events,
              critical, normRuns, scanReturn, scanError, scans, atStart, runReport>>
mainVars == <<argv, configFile, mainPc, apiKey, printed, exitStatus, outputFile, runReturn>>
vars == <<rlVars, addrVars, normVars, scanVars, mainVars>>

\* A part of the program that a specification leaves alone stays as
\* constructed.
RLIdle ==
    /\ clock = 0
    /\ limit = 1
    /\ requests = <<>>
    /\ lock = NoThread
    /\ pc = [t \in Threads |-> "idle"]
    /\ now = [t \in Threads |-> 0]
    /\ wakeAt = [t \in Threads |-> 0]
    /\ admitted = <<>>
    /\ calls = 0

AddrIdle ==
    /\ addrInput = <<>>
    /\ addrPc = "done"
    /\ addrScanner = FALSE
    /\ addrUtils = FALSE

\* The locals of _process_transactions: the index i and what the first loop
\* made so far, the index j, unique_transactions and seen_hashes of the second.
NoLoop ==
    [i |-> 0,
     acc |-> [processed |-> <<>>, warnings |-> <<>>, progress |-> <<>>, events |-> <<>>],
     j |-> 0, unique_transactions |-> <<>>, seen_hashes |-> {}]
NormIdle ==
    /\ normInput = <<>>
    /\ normNow = 0
    /\ normPc = "done"
    /\ normOut = [result |-> <<>>, warnings |-> <<>>, progress |-> <<>>, events |-> <<>>]
    /\ normLoop = NoLoop

\* Config.get_api_key returned the key, or raised with a message.
KeyLoaded(key) == [raised |-> FALSE, message |-> "", key |-> key]
KeyError(message) == [raised |-> TRUE, message |-> message, key |-> <<>>]
NoArgv == [argc |-> 1, command |-> "", wallet |-> <<>>, action |-> "", version |-> ""]
NoFile == [exists |-> FALSE, lines |-> <<>>]
MainIdle ==
    /\ outputFile = NoFile
    /\ runReturn = "none"
    /\ argv = NoArgv
    /\ configFile = [k |-> "nofile", s |-> <<>>]
    /\ mainPc = "exit"
    /\ apiKey = KeyError("")
    /\ printed = <<>>
    /\ exitStatus = 0

\* scan_wallet_transactions returns a list.
Returned(value) == [raised |-> FALSE, value |-> value]
NoEnvelope == [kind |-> "none", status |-> "", message |-> "", hasResult |-> FALSE, result |-> <<>>]
ScanIdle ==
    /\ scanPc = "idle"
    /\ scanAddr = <<>>
    /\ requestCount = 0
    /\ scanLock = NoThread
    /\ sent = 0
    /\ attempts = 0
    /\ envelope = NoEnvelope
    /\ fetched = <<>>
    /\ events = <<>>
    /\ critical = 0
    /\ normRuns = 0
    /\ scanReturn = Returned(<<>>)
    /\ scanError = "none"
    /\ scans = 0
    /\ atStart = [admitted |-> 0, sent |-> 0, requestCount |-> 0]
    /\ runReport = "none"

\* ------------------------------------------------------------ RateLimiter
\* self.requests = [t for t in self.requests if now - t < 1.0]
EvictNothing(reqs, n) == reqs
RECURSIVE Evict(_, _)
Evict(reqs, n) ==
    IF reqs = <<>> THEN <<>>
    ELSE IF n - Head(reqs) < TicksPerSecond
         THEN <<Head(reqs)>> \o Evict(Tail(reqs), n)
         ELSE Evict(Tail(reqs), n)

\* len(self.requests) >= self.limit
WindowFullOffByOne(reqs, lim) == Len(reqs) > lim
WindowFull(reqs, lim) == Len(reqs) >= lim

\* sleep_time = 1.0 - (now - self.requests[0])
SleepTime(reqs, n) == TicksPerSecond - (n - reqs[1])

\* `with self.lock:` can be entered: threading.Lock is not reentrant, so the
\* holder itself cannot enter a second time.
LockAlwaysFree == TRUE
LockFree == lock = NoThread

\* time.time() moves on.
Tick ==
    /\ clock < MaxClock
    /\ clock' = clock + 1
    /\ UNCHANGED <<limit, requests, lock, pc, now, wakeAt, admitted, calls>>
    /\ UNCHANGED <<addrVars, normVars, scanVars, mainVars>>

\* A thread calls rate_limiter.wait().
WaitCall(t) ==
    /\ pc[t] = "idle"
    /\ calls < MaxCalls
    /\ pc' = [pc EXCEPT ![t] = "acquire"]
    /\ calls' = calls + 1
    /\ UNCHANGED <<clock, limit, requests, lock, now, wakeAt, admitted>>
    /\ UNCHANGED <<addrVars, normVars, scanVars, mainVars>>

\* `with self.lock:` of a call from outside ("acquire") and of the recursive
\* call made after the sleep ("recheck"). The recursive call never gets past
\* this line, so the `return` of line 297 that would follow it is not a step.
WaitAcquire(t) ==
    /\ pc[t] \in {"acquire", "recheck"}
    /\ LockFree
    /\ lock' = t
    /\ pc' = [pc EXCEPT ![t] = "evict"]
    /\ UNCHANGED <<clock, limit, requests, now, wakeAt, admitted, calls>>
    /\ UNCHANGED <<addrVars, normVars, scanVars, mainVars>>

\* now = time.time(); drop the requests older than one second.
WaitEvict(t) ==
    /\ pc[t] = "evict"
    /\ now' = [now EXCEPT ![t] = clock]
    /\ requests' = Evict(requests, clock)
    /\ pc' = [pc EXCEPT ![t] = "check"]
    /\ UNCHANGED <<clock, limit, lock, wakeAt, admitted, calls>>
    /\ UNCHANGED <<addrVars, normVars, scanVars, mainVars>>

\* if len(self.requests) >= self.limit: ... if sleep_time > 0: time.sleep(..)
WaitCheck(t) ==
    /\ pc[t] = "check"
    /\ IF WindowFull(requests, limit) /\ SleepTime(requests, now[t]) > 0
       THEN /\ pc' = [pc EXCEPT ![t] = "sleep"]
            /\ wakeAt' = [wakeAt EXCEPT ![t] = clock + SleepTime(requests, now[t])]
       ELSE /\ pc' = [pc EXCEPT ![t] = "append"]
            /\ UNCHANGED wakeAt
    /\ UNCHANGED <<clock, limit, requests, lock, now, admitted, calls>>
    /\ UNCHANGED <<addrVars, normVars, scanVars, mainVars>>

\* time.sleep(sleep_time) ends; the thread, still inside `with self.lock:`,
\* goes on to the recursive self.wait().
WaitWake(t) ==
    /\ pc[t] = "sleep"
    /\ clock >= wakeAt[t]
    /\ pc' = [pc EXCEPT ![t] = "recheck"]
    /\ UNCHANGED <<clock, limit, requests, lock, now, wakeAt, admitted, calls>>
    /\ UNCHANGED <<addrVars, normVars, scanVars, mainVars>>

\* self.requests.append(now), the end of the with block, return.
WaitAppend(t) ==
    /\ pc[t] = "append"
    /\ requests' = Append(requests, now[t])
    /\ admitted' = Append(admitted, now[t])
    /\ lock' = NoThread
    /\ pc' = [pc EXCEPT ![t] = "idle"]
    /\ UNCHANGED <<clock, limit, now, wakeAt, calls>>
    /\ UNCHANGED <<addrVars, normVars, scanVars, mainVars>>

RLInit ==
    /\ clock = 0
    /\ limit \in 1..MaxLimit
    /\ requests = <<>>
    /\ lock = NoThread
    /\ pc = [t \in Threads |-> "idle"]
    /\ now = [t \in Threads |-> 0]
    /\ wakeAt = [t \in Threads |-> 0]
    /\ admitted = <<>>
    /\ calls = 0

InitRL == RLInit /\ AddrIdle /\ NormIdle /\ ScanIdle /\ MainIdle

NextRL ==
    \/ Tick
    \/ \E t \in Threads : WaitCall(t)
    \/ \E t \in Threads : WaitAcquire(t)
    \/ \E t \in Threads : WaitEvict(t)
    \/ \E t \in Threads : WaitCheck(t)
    \/ \E t \in Threads : WaitWake(t)
    \/ \E t \in Threads : WaitAppend(t)

SpecRL == InitRL /\ [][NextRL]_vars

\* ------------------------------------------------------ address validation
\* Strings that the code inspects character by character are sequences of
\* one-character strings.
AddrLen == 40
MaxHead == 3
MaxTail == 1
PadSlack == 2

HexDigits ==
    {"0", "1", "2", "3", "4", "5", "6", "7", "8", "9",
     "a", "b", "c", "d", "e", "f", "A", "B", "C", "D", "E", "F"}
Whitespace == {" "}
AddrAlphabet == {"0", "x", "a", "F", "g", "+", "_", " "}

\* address.startswith('0x')
StartsWith0x(s) == Len(s) >= 2 /\ s[1] = "0" /\ s[2] = "x"

\* address[2:]
DropTwo(s) == SubSeq(s, 3, Len(s))

\* str.strip() as int() applies it: leading and trailing whitespace goes.
RECURSIVE LStrip(_)
LStrip(s) == IF s # <<>> /\ Head(s) \in Whitespace THEN LStrip(Tail(s)) ELSE s
RECURSIVE RStrip(_)
RStrip(s) ==
    IF s # <<>> /\ s[Len(s)] \in Whitespace THEN RStrip(SubSeq(s, 1, Len(s) - 1)) ELSE s

\* The digit part of an int literal: hex digits, single underscores only
\* between two digits, at least one digit.
DigitsOk(s) ==
    /\ s # <<>>
    /\ s[1] # "_"
    /\ s[Len(s)] # "_"
    /\ \A i \in 1..Len(s) : s[i] \in HexDigits \cup {"_"}
    /\ \A i \in 1..(Len(s) - 1) : ~(s[i] = "_" /\ s[i + 1] = "_")

\* Whether int(s, 16) returns rather than raising ValueError: surrounding
\* whitespace, one sign, one 0x/0X prefix (and one underscore after it) are
\* accepted before the digits.
OnlyHexDigits(s) == s # <<>> /\ \A i \in 1..Len(s) : s[i] \in HexDigits
PyIntBase16Ok(s) ==
    LET a == RStrip(LStrip(s))
        b == IF a # <<>> /\ a[1] \in {"+", "-"} THEN Tail(a) ELSE a
        c == IF Len(b) >= 2 /\ b[1] = "0" /\ b[2] \in {"x", "X"}
             THEN (LET d == DropTwo(b) IN IF d # <<>> /\ d[1] = "_" THEN Tail(d) ELSE d)
             ELSE b
    IN DigitsOk(c)

\* BSCScanner._validate_wallet_address
ValidateWalletAddress(address) ==
    IF address = <<>> THEN FALSE
    ELSE LET stripped == IF StartsWith0x(address) THEN DropTwo(address) ELSE address
         IN IF Len(stripped) # AddrLen THEN FALSE ELSE PyIntBase16Ok(stripped)

\* AddressValidator.is_valid_bsc_address
IsValidBscAddress(address) ==
    IF address = <<>> THEN FALSE
    ELSE LET clean_address == IF StartsWith0x(address) THEN DropTwo(address) ELSE address
         IN IF Len(clean_address) # AddrLen THEN FALSE ELSE PyIntBase16Ok(clean_address)

\* n copies of the hex digit "a".
Pad(n) == [i \in 1..n |-> "a"]

SeqsUpTo(S, n) == UNION {[1..k -> S] : k \in 0..n}

\* The strings tried: a short head and a short tail over the alphabet around
\* a run of hex digits, of every total length near AddrLen and AddrLen + 2.
AddrInputs ==
    {h \o Pad(n) \o t :
        h \in SeqsUpTo(AddrAlphabet, MaxHead),
        t \in SeqsUpTo(AddrAlphabet, MaxTail),
        n \in (AddrLen - MaxHead - MaxTail - PadSlack)..(AddrLen + 2)}

AddrInit ==
    /\ addrInput \in AddrInputs
    /\ addrPc = "input"
    /\ addrScanner = FALSE
    /\ addrUtils = FALSE

\* Both validators are run on the input.
ValidateAddress ==
    /\ addrPc = "input"
    /\ addrScanner' = ValidateWalletAddress(addrInput)
    /\ addrUtils' = IsValidBscAddress(addrInput)
    /\ addrPc' = "done"
    /\ UNCHANGED addrInput
    /\ UNCHANGED <<rlVars, normVars, scanVars, mainVars>>

InitAddr == AddrInit /\ RLIdle /\ NormIdle /\ ScanIdle /\ MainIdle
NextAddr == ValidateAddress
SpecAddr == InitAddr /\ [][NextAddr]_vars

\* ------------------------------------------------------- normalization
\* A raw record maps each field name to a field value: absent from the
\* dict, JSON null, or a string. Strings the code only passes on are atomic;
\* strings it inspects (from, to, input, timeStamp, value, tokenDecimal) are
\* character sequences.
AbsentS == [k |-> "absent", s |-> ""]
NullS == [k |-> "null", s |-> ""]
StrS(x) == [k |-> "str", s |-> x]
AbsentQ == [k |-> "absent", s |-> <<>>]
NullQ == [k |-> "null", s |-> <<>>]
StrQ(x) == [k |-> "str", s |-> x]

\* tx.get(key, default)
Get(tx, key, default) == IF tx[key].k = "absent" THEN default ELSE tx[key]

DecDigits == {"0", "1", "2", "3", "4", "5", "6", "7", "8", "9"}
DigitVal(c) ==
    CASE c = "0" -> 0 [] c = "1" -> 1 [] c = "2" -> 2 [] c = "3" -> 3 [] c = "4" -> 4
      [] c = "5" -> 5 [] c = "6" -> 6 [] c = "7" -> 7 [] c = "8" -> 8 [] c = "9" -> 9

DecDigitsOk(s) ==
    /\ s # <<>>
    /\ s[1] # "_"
    /\ s[Len(s)] # "_"
    /\ \A i \in 1..Len(s) : s[i] \in DecDigits \cup {"_"}
    /\ \A i \in 1..(Len(s) - 1) : ~(s[i] = "_" /\ s[i + 1] = "_")

RECURSIVE DecValue(_, _)
DecValue(s, acc) ==
    IF s = <<>> THEN acc
    ELSE IF Head(s) = "_" THEN DecValue(Tail(s), acc)
         ELSE DecValue(Tail(s), 10 * acc + DigitVal(Head(s)))

\* int(x) of a field value. A string is an integer literal when, stripped
\* of surrounding whitespace and of one sign, it is made of digits with
\* single underscores between them; anything else raises ValueError, and
\* None raises TypeError.
Unsigned(f) ==
    LET a == RStrip(LStrip(f.s))
    IN IF a # <<>> /\ a[1] \in {"+", "-"} THEN Tail(a) ELSE a
PyIntOk(f) == f.k = "str" /\ DecDigitsOk(Unsigned(f))
PyIntNegative(f) ==
    LET a == RStrip(LStrip(f.s))
    IN a # <<>> /\ a[1] = "-"

\* int(x) as a number, for the integers small enough to compute with:
\* [ok, v].
PyInt(f) ==
    IF ~PyIntOk(f) THEN [ok |-> FALSE, v |-> 0]
    ELSE [ok |-> TRUE,
          v |-> IF PyIntNegative(f) THEN 0 - DecValue(Unsigned(f), 0)
                ELSE DecValue(Unsigned(f), 0)]

\* The ten-character method signatures of method_map.
SigTransfer == <<"0", "x", "a", "9", "0", "5", "9", "c", "b", "b">>
SigTransferFrom == <<"0", "x", "2", "3", "b", "8", "7", "2", "d", "d">>
SigApprove == <<"0", "x", "0", "9", "5", "e", "a", "7", "b", "3">>
SigMint == <<"0", "x", "a", "0", "7", "1", "2", "d", "6", "8">>
SigBurn == <<"0", "x", "4", "2", "9", "6", "6", "c", "6", "8">>
SigLen == 10

MethodMap(sig) ==
    CASE sig = SigTransfer -> "transfer"
      [] sig = SigTransferFrom -> "transferFrom"
      [] sig = SigApprove -> "approve"
      [] sig = SigMint -> "mint"
      [] sig = SigBurn -> "burn"
      [] OTHER -> "unknown"

\* BSCScanner._extract_method
ExtractMethod(tx) ==
    IF tx["functionName"].k = "str" /\ tx["functionName"].s # ""
    THEN tx["functionName"].s
    ELSE LET input_data == Get(tx, "input", StrQ(<<>>))
         IN IF input_data.k = "str" /\ input_data.s # <<>> /\ Len(input_data.s) >= SigLen
            THEN MethodMap(SubSeq(input_data.s, 1, SigLen))
            ELSE "transfer"

SecondsPerDay == 86400
SecondsPerHour == 3600
SecondsPerMinute == 60

\* BSCScanner._calculate_age: diff = now - tx_time is a timedelta, whose
\* days is the floor of the difference in days and whose seconds is the rest.
CalculateAge(timestamp_str, nowTs) ==
    LET timestamp == PyInt(timestamp_str)
        diff == nowTs - timestamp.v
        days == diff \div SecondsPerDay
        seconds == diff % SecondsPerDay
    IN IF ~timestamp.ok THEN [n |-> 0, text |-> "Unknown"]
       ELSE IF days > 0 THEN [n |-> days, text |-> "days ago"]
       ELSE IF seconds > SecondsPerHour
            THEN [n |-> seconds \div SecondsPerHour, text |-> "hours ago"]
       ELSE IF seconds > SecondsPerMinute
            THEN [n |-> seconds \div SecondsPerMinute, text |-> "minutes ago"]
       ELSE [n |-> 0, text |-> "Just now"]

\* str.lower(), on the letters that the strings tried are made of.
LowerChar(c) ==
    CASE c = "A" -> "a" [] c = "B" -> "b" [] c = "C" -> "c" [] c = "D" -> "d"
      [] c = "E" -> "e" [] c = "F" -> "f" [] c = "N" -> "n" [] c = "X" -> "x"
      [] OTHER -> c
Lower(s) == [i \in 1..Len(s) |-> LowerChar(s[i])]

AmountDigits == 6
DefaultDecimals == <<"1", "8">>

\* Python's integers have no upper limit: a natural number is kept as the
\* sequence of its decimal digits, the first one not 0, and zero as <<>>.
RECURSIVE BigNorm(_)
BigNorm(a) == IF a # <<>> /\ a[1] = 0 THEN BigNorm(Tail(a)) ELSE a
BigOf(s) == BigNorm([i \in 1..Len(SelectSeq(s, LAMBDA c : c # "_")) |->
                        DigitVal(SelectSeq(s, LAMBDA c : c # "_")[i])])
Zeros(n) == [i \in 1..n |-> 0]
Front(a) == SubSeq(a, 1, Len(a) - 1)

\* The digits of a small number n.
RECURSIVE BigOfNat(_)
BigOfNat(n) == IF n = 0 THEN <<>> ELSE Append(BigOfNat(n \div 10), n % 10)

\* a * k + carry, for a factor k below 1000, six digits at a time
RECURSIVE BigTimes(_, _, _)
BigTimes(a, k, carry) ==
    IF a = <<>> THEN BigOfNat(carry)
    ELSE IF Len(a) < 6
    THEN LET p == a[Len(a)] * k + carry
         IN Append(BigTimes(Front(a), k, p \div 10), p % 10)
    ELSE LET n == Len(a)
             p == (a[n - 5] * 100000 + a[n - 4] * 10000 + a[n - 3] * 1000
                   + a[n - 2] * 100 + a[n - 1] * 10 + a[n]) * k + carry
             low == p % 1000000
         IN BigTimes(SubSeq(a, 1, n - 6), k, p \div 1000000)
            \o <<low \div 100000, (low \div 10000) % 10, (low \div 1000) % 10,
                 (low \div 100) % 10, (low \div 10) % 10, low % 10>>

\* a * 2^n and a * 5^n, four factors at a time
RECURSIVE BigTimesPower2(_, _)
BigTimesPower2(a, n) ==
    IF n = 0 \/ a = <<>> THEN a
    ELSE IF n >= 4 THEN BigTimesPower2(BigTimes(a, 16, 0), n - 4)
    ELSE BigTimesPower2(BigTimes(a, 2, 0), n - 1)
RECURSIVE BigTimesPower5(_, _)
BigTimesPower5(a, n) ==
    IF n = 0 \/ a = <<>> THEN a
    ELSE IF n >= 4 THEN BigTimesPower5(BigTimes(a, 625, 0), n - 4)
    ELSE BigTimesPower5(BigTimes(a, 5, 0), n - 1)

\* a + 1
RECURSIVE BigIncr(_)
BigIncr(a) ==
    IF a = <<>> THEN <<1>>
    ELSE IF a[Len(a)] < 9 THEN Append(Front(a), a[Len(a)] + 1)
    ELSE Append(BigIncr(Front(a)), 0)

BigLess(a, b) ==
    \/ Len(a) < Len(b)
    \/ /\ Len(a) = Len(b)
       /\ \E i \in 1..Len(a) : a[i] < b[i] /\ \A j \in 1..(i - 1) : a[j] = b[j]

\* a / 10^n rounded to the nearest integer, a tie to the even one: the
\* rounding of the float division and of the float's formatting.
RoundShift(a, n) ==
    LET padded == IF Len(a) <= n THEN Zeros(n + 1 - Len(a)) \o a ELSE a
        q == SubSeq(padded, 1, Len(padded) - n)
        r == SubSeq(padded, Len(padded) - n + 1, Len(padded))
        tie == n > 0 /\ r[1] = 5 /\ \A i \in 2..n : r[i] = 0
        above == n > 0 /\ r[1] >= 5 /\ ~tie
        up == above \/ (tie /\ q[Len(q)] % 2 = 1)
    IN BigNorm(IF up THEN BigIncr(q) ELSE q)

\* A float has 53 significant bits: 2^52 and 2^53.
Two52 == <<4, 5, 0, 3, 5, 9, 9, 6, 2, 7, 3, 7, 0, 4, 9, 6>>
Two53 == <<9, 0, 0, 7, 1, 9, 9, 2, 5, 4, 7, 4, 0, 9, 9, 2>>

\* a doubled until it is no less than floor: [a, s], s the doublings made
\* (four at a time while that does not reach floor)
RECURSIVE ScaleUp(_, _, _)
ScaleUp(a, floor, s) ==
    IF ~BigLess(a, floor) THEN [a |-> a, s |-> s]
    ELSE IF BigLess(BigTimes(a, 16, 0), floor) THEN ScaleUp(BigTimes(a, 16, 0), floor, s + 4)
    ELSE ScaleUp(BigTimes(a, 2, 0), floor, s + 1)

\* a / 10^d halved until it is less than 2^53, a halving being a
\* multiplication by 5 and one more decimal place: [a, d, e], e the halvings
\* (four at a time while that does not get below 2^53)
RECURSIVE ScaleDown(_, _, _)
ScaleDown(a, d, e) ==
    IF BigLess(a, Two53 \o Zeros(d)) THEN [a |-> a, d |-> d, e |-> e]
    ELSE IF ~BigLess(BigTimes(a, 625, 0), Two53 \o Zeros(d + 4))
    THEN ScaleDown(BigTimes(a, 625, 0), d + 4, e + 4)
    ELSE ScaleDown(BigTimes(a, 5, 0), d + 1, e + 1)

\* int(value) / (10 ** decimals) for v > 0 and d >= 0: the float nearest to
\* the quotient, as [m, e] for m * 2^e with 2^52 <= m <= 2^53. (Quotients
\* outside the range of a float are not among those tried.)
TrueDivide(v, d) ==
    IF BigLess(v, Two52 \o Zeros(d))
    THEN LET u == ScaleUp(v, Two52 \o Zeros(d), 0)
         IN [m |-> RoundShift(u.a, d), e |-> 0 - u.s]
    ELSE LET w == ScaleDown(v, d, 0)
         IN [m |-> RoundShift(w.a, w.d), e |-> w.e]

\* f"{token_value:.6f}": the float's exact value rounded to six fractional
\* digits, as the digits of its multiple of 10^-6.
FixedPoint(x) ==
    IF x.e >= 0 THEN BigTimesPower2(x.m, x.e) \o Zeros(AmountDigits)
    ELSE RoundShift(BigTimesPower5(x.m, 0 - x.e) \o Zeros(AmountDigits), 0 - x.e)

DigitChar(n) ==
    CASE n = 0 -> "0" [] n = 1 -> "1" [] n = 2 -> "2" [] n = 3 -> "3" [] n = 4 -> "4"
      [] n = 5 -> "5" [] n = 6 -> "6" [] n = 7 -> "7" [] n = 8 -> "8" [] n = 9 -> "9"

\* The text of a multiple of 10^-6: its integer digits, a point, six digits.
FixedText(micro) ==
    LET padded == IF Len(micro) <= AmountDigits
                  THEN Zeros(AmountDigits + 1 - Len(micro)) \o micro ELSE micro
        whole == Len(padded) - AmountDigits
    IN [i \in 1..(Len(padded) + 1) |->
           IF i <= whole THEN DigitChar(padded[i])
           ELSE IF i = whole + 1 THEN "." ELSE DigitChar(padded[i - 1])]

\* The amount of lines 250-251 for the literal `value` and the number
\* `decimals`. (With negative decimals 10 ** decimals is itself a float, and
\* the quotient may differ from the one taken here in its last bit; no
\* record tried has them.)
AmountText(value, decimals) ==
    LET v == BigOf(Unsigned(value))
        x == IF decimals >= 0 THEN TrueDivide(v, decimals)
             ELSE TrueDivide(v \o Zeros(0 - decimals), 0)
    IN IF v = <<>> THEN FixedText(<<>>)
       ELSE (IF PyIntNegative(value) THEN <<"-">> ELSE <<>>) \o FixedText(FixedPoint(x))

\* BSCScanner._format_token_info: [ok, token]; not ok stands for the
\* exception that int(tokenDecimal), outside the try, lets escape. The token
\* is kept by its parts: whether it has an amount, the amount's text, the
\* symbol and the name.
FormatTokenInfo(tx) ==
    LET token_name == Get(tx, "tokenName", StrS("Unknown")).s
        token_symbol == Get(tx, "tokenSymbol", StrS("UNK")).s
        value == Get(tx, "value", StrQ(<<"0">>))
        decimals == PyInt(Get(tx, "tokenDecimal", StrQ(DefaultDecimals)))
        plain == [amount |-> FALSE, text |-> <<>>, symbol |-> token_symbol, name |-> token_name]
    IN IF ~decimals.ok THEN [ok |-> FALSE, token |-> plain]
       ELSE IF ~PyIntOk(value) THEN [ok |-> TRUE, token |-> plain]
       ELSE [ok |-> TRUE,
             token |-> [amount |-> TRUE,
                        text |-> AmountText(value, decimals.v),
                        symbol |-> token_symbol,
                        name |-> token_name]]

NoRecord ==
    [hash |-> "", method |-> "", age |-> [n |-> 0, text |-> ""], from |-> <<>>, to |-> <<>>,
     token |-> [amount |-> FALSE, text |-> <<>>, symbol |-> "", name |-> ""]]

NotAvailable == <<"N", "/", "A">>

\* tx.get('hash', 'N/A'): the string, or None for a JSON null. None is kept
\* as a token of its own, which no string tried equals.
NoneHash == "<None>"
HashOf(hash) == IF hash.k = "null" THEN NoneHash ELSE hash.s

\* Lines 169-176, the body of the try: [ok, rec]; not ok stands for the
\* exception that makes the loop skip the record (None.lower() of a null
\* from or to, or the one escaping _format_token_info).
ProcessedTx(tx, nowTs, from, to, token) ==
    IF from.k # "str" \/ to.k # "str" \/ ~token.ok
    THEN [ok |-> FALSE, rec |-> NoRecord]
    ELSE [ok |-> TRUE,
          rec |-> [hash |-> HashOf(Get(tx, "hash", StrS("N/A"))),
                   method |-> ExtractMethod(tx),
                   age |-> CalculateAge(Get(tx, "timeStamp", StrQ(<<"0">>)), nowTs),
                   from |-> Lower(from.s),
                   to |-> Lower(to.s),
                   token |-> token.token]]
ProcessTx(tx, nowTs) ==
    ProcessedTx(tx, nowTs, Get(tx, "from", StrQ(NotAvailable)),
                Get(tx, "to", StrQ(NotAvailable)), FormatTokenInfo(tx))

\* processed.append(processed_tx)
PrependProcessed(processed, processed_tx) == <<processed_tx>> \o processed
AppendProcessed(processed, processed_tx) == Append(processed, processed_tx)

ProgressEvery == 100

\* if i % 100 == 0 or i == total - 1, with i counted from 0
ShowsProgressOneBased(i, total) == (i + 1) % ProgressEvery = 0 \/ i = total - 1
ShowsProgress(i, total) == i % ProgressEvery = 0 \/ i = total - 1

\* except Exception: self.terminal.debug_warning("PROCESS", ...); continue
NoWarning(ok) == <<>>
FailureWarning(ok) == IF ok THEN <<>> ELSE <<(<<"warning", "PROCESS">>)>>

\* One pass of the for loop of lines 163-182, at 0-based index i of total,
\* r being what the body of the try gave: the records processed, the
\* warnings and the progress events emitted so far.
LoopPass(i, total, acc, r) ==
    [processed |-> IF r.ok THEN AppendProcessed(acc.processed, r.rec) ELSE acc.processed,
     warnings |-> IF r.ok THEN acc.warnings ELSE Append(acc.warnings, i),
     progress |-> IF ShowsProgress(i, total) THEN Append(acc.progress, <<i + 1, total>>)
                  ELSE acc.progress,
     events |-> acc.events
                \o (IF ShowsProgress(i, total) THEN <<(<<"progress", "PROCESS">>)>> ELSE <<>>)
                \o FailureWarning(r.ok)]

\* The for loop of lines 163-182 from 0-based index i on.
RECURSIVE ProcessLoop(_, _, _, _)
ProcessLoop(raw, nowTs, i, acc) ==
    IF i >= Len(raw) THEN acc
    ELSE ProcessLoop(raw, nowTs, i + 1,
                     LoopPass(i, Len(raw), acc, ProcessTx(raw[i + 1], nowTs)))

\* if tx['hash'] not in seen_hashes
KeepsAll(tx, seen_hashes) == TRUE
NotSeen(tx, seen_hashes) == tx.hash \notin seen_hashes

\* seen_hashes.add(tx['hash'])
SeenAdd(tx, seen_hashes) == seen_hashes \cup {tx.hash}

\* The duplicate filter of lines 185-191.
RECURSIVE FilterUnique(_, _, _)
FilterUnique(processed, unique_transactions, seen_hashes) ==
    IF processed = <<>> THEN unique_transactions
    ELSE LET tx == Head(processed)
         IN IF NotSeen(tx, seen_hashes)
            THEN FilterUnique(Tail(processed), Append(unique_transactions, tx),
                              SeenAdd(tx, seen_hashes))
            ELSE FilterUnique(Tail(processed), unique_transactions, seen_hashes)

\* Lines 185-195 after the loop: the list returned, and what was reported
\* on the way.
ReturnUnique(loop) ==
    [result |-> FilterUnique(loop.processed, <<>>, {}),
     warnings |-> loop.warnings,
     progress |-> loop.progress,
     events |-> Append(loop.events, <<"success", "PROCESS">>)]

\* BSCScanner._process_transactions
ProcessTransactions(raw, nowTs) ==
    ReturnUnique(ProcessLoop(raw, nowTs, 0,
                    [processed |-> <<>>, warnings |-> <<>>, progress |-> <<>>,
                     events |-> <<(<<"step", "PROCESS">>)>>]))

\* The raw records tried.
MaxBatch == 3
BaseTx ==
    [hash |-> AbsentS, functionName |-> AbsentS, input |-> AbsentQ, timeStamp |-> AbsentQ,
     from |-> AbsentQ, to |-> AbsentQ, value |-> AbsentQ, tokenDecimal |-> AbsentQ,
     tokenSymbol |-> AbsentS, tokenName |-> AbsentS]
NormHashes == {StrS("0xabc"), StrS("0xdef"), AbsentS}
NormFroms == {StrQ(<<"0", "x", "A", "b">>), NullQ}
NormTos == {StrQ(<<"0", "x", "C">>), StrQ(<<"0", "x", "d">>)}
NormRecords ==
    {[BaseTx EXCEPT !["hash"] = h, !["from"] = f, !["to"] = t] :
        h \in NormHashes, f \in NormFroms, t \in NormTos}
NormNowValue == 100000

NormInit ==
    /\ normInput \in SeqsUpTo(NormRecords, MaxBatch)
    /\ normNow = NormNowValue
    /\ normPc = "input"
    /\ normOut = [result |-> <<>>, warnings |-> <<>>, progress |-> <<>>, events |-> <<>>]
    /\ normLoop = NoLoop

\* _process_transactions runs on the input.
Normalize ==
    /\ normPc = "input"
    /\ normOut' = ProcessTransactions(normInput, normNow)
    /\ normPc' = "done"
    /\ UNCHANGED <<normInput, normNow, normLoop>>
    /\ UNCHANGED <<rlVars, addrVars, scanVars, mainVars>>

InitNorm == NormInit /\ RLIdle /\ AddrIdle /\ ScanIdle /\ MainIdle
NextNorm == Normalize
SpecNorm == InitNorm /\ [][NextNorm]_vars

\* ---------------------------------------------- the fields of one record
\* Raw records that differ from one another in the fields of one rule of
\* the transformation, alone or after a record of NormRecords.
Text(a) == IF a = <<>> THEN <<"0">> ELSE [i \in 1..Len(a) |-> DigitChar(a[i])]
FieldTx == [BaseTx EXCEPT !["hash"] = StrS("0xfee")]

\* functionName and input
SigOther == <<"0", "x", "d", "e", "a", "d", "b", "e", "e", "f">>
SigUpper == <<"0", "x", "A", "9", "0", "5", "9", "C", "B", "B">>
FunctionNames == {AbsentS, NullS, StrS(""), StrS("swapExactTokens(uint256)")}
Inputs ==
    {AbsentQ, NullQ, StrQ(<<>>), StrQ(<<"0", "x">>), StrQ(Front(SigTransfer)),
     StrQ(SigTransfer), StrQ(SigTransferFrom), StrQ(SigApprove), StrQ(SigMint), StrQ(SigBurn),
     StrQ(SigTransfer \o <<"0", "0">>), StrQ(SigOther), StrQ(SigUpper)}
MethodRecords ==
    {[FieldTx EXCEPT !["functionName"] = fn, !["input"] = inp] :
        fn \in FunctionNames, inp \in Inputs}

\* timeStamp: no integer, or the time so many seconds before now, or after
AgeOffsets == {0, 1, 59, 60, 61, 3599, 3600, 3601, 7200, 86399, 86400, 86401}
TimeStamps ==
    {AbsentQ, NullQ, StrQ(<<>>), StrQ(<<"a", "b">>), StrQ(<<"1", ".", "5">>)}
    \cup {StrQ(Text(BigOfNat(NormNowValue - secs))) : secs \in AgeOffsets}
    \cup {StrQ(Text(BigOfNat(NormNowValue + 5)))}
AgeRecords == {[FieldTx EXCEPT !["timeStamp"] = t] : t \in TimeStamps}

\* value, tokenDecimal, tokenSymbol and tokenName
Values ==
    {AbsentQ, NullQ, StrQ(<<>>), StrQ(<<"a", "b">>), StrQ(<<"5">>), StrQ(<<"2", "6">>),
     StrQ(<<"1", "5", "0", "0", "0", "0", "0">>),
     StrQ(Text(<<1>> \o Zeros(18))),
     StrQ(Text(BigIncr(Two53))),
     StrQ(Text(<<1>> \o Zeros(12) \o <<1, 2, 3, 4, 5, 6>> \o Zeros(12)))}
Decimals ==
    {AbsentQ, NullQ, StrQ(<<"x">>), StrQ(<<"0">>), StrQ(<<"6">>), StrQ(<<"7">>),
     StrQ(<<"1", "8">>)}
TokenRecords ==
    {[FieldTx EXCEPT !["value"] = v, !["tokenDecimal"] = d, !["tokenSymbol"] = n[1],
                     !["tokenName"] = n[2]] :
        v \in Values, d \in Decimals,
        n \in {<<AbsentS, AbsentS>>, <<StrS("USDT"), StrS("Tether USD")>>}}

\* from and to
Parties == {AbsentQ, NullQ, StrQ(<<>>), StrQ(<<"0", "x", "A", "b">>)}
PartyRecords == {[FieldTx EXCEPT !["from"] = f, !["to"] = t] : f \in Parties, t \in Parties}

FieldRecords == MethodRecords \cup AgeRecords \cup TokenRecords \cup PartyRecords
FieldInit ==
    /\ normInput \in {<<r>> : r \in FieldRecords}
                     \cup {<<n, r>> : n \in NormRecords, r \in FieldRecords}
    /\ normNow = NormNowValue
    /\ normPc = "input"
    /\ normOut = [result |-> <<>>, warnings |-> <<>>, progress |-> <<>>, events |-> <<>>]
    /\ normLoop = NoLoop

InitField == FieldInit /\ RLIdle /\ AddrIdle /\ ScanIdle /\ MainIdle
SpecField == InitField /\ [][NextNorm]_vars

\* --------------------------------------------------------- long batches
\* _process_transactions on batches of hundreds of records, one pass of
\* its loops a step.
MaxHundreds == 2
BatchLengths ==
    {n \in 1..(ProgressEvery * MaxHundreds + 2) : n % ProgressEvery \in {0, 1, 2}}

\* Which record of the batch has a null sender and fails, if any: none, the
\* first, the second, the last, the one after the first hundred.
FailingPlaces(n) == {0, 1, 2, n, ProgressEvery + 1}

\* The raw record at place p: its hash is its own, or that of all.
BatchRecord(p, bad, distinct) ==
    [BaseTx EXCEPT !["hash"] = StrS(IF distinct THEN "0x" \o ToString(p) ELSE "0xabc"),
                   !["from"] = IF p = bad THEN NullQ ELSE StrQ(<<"0", "x", "A", "b">>),
                   !["to"] = StrQ(<<"0", "x", "C">>)]
Batches ==
    {[p \in 1..n |-> BatchRecord(p, bad, distinct)] :
        <<n, bad>> \in {<<m, b>> \in BatchLengths \X (0..(ProgressEvery * MaxHundreds + 2)) :
                            b \in FailingPlaces(m)},
        distinct \in BOOLEAN}

BatchInit ==
    /\ normInput \in Batches
    /\ normNow = NormNowValue
    /\ normPc = "loop"
    /\ normOut = [result |-> <<>>, warnings |-> <<>>, progress |-> <<>>, events |-> <<>>]
    /\ normLoop = [NoLoop EXCEPT !.acc.events = <<(<<"step", "PROCESS">>)>>]

\* for i, tx in enumerate(raw_transactions): one pass (lines 163-182)
LoopIterate ==
    /\ normPc = "loop"
    /\ normLoop.i < Len(normInput)
    /\ normLoop' = [normLoop EXCEPT
                       !.i = normLoop.i + 1,
                       !.acc = LoopPass(normLoop.i, Len(normInput), normLoop.acc,
                                        ProcessTx(normInput[normLoop.i + 1], normNow))]
    /\ UNCHANGED <<normInput, normNow, normPc, normOut>>
    /\ UNCHANGED <<rlVars, addrVars, scanVars, mainVars>>

\* The for loop is over (lines 185-186).
LoopEnd ==
    /\ normPc = "loop"
    /\ normLoop.i >= Len(normInput)
    /\ normPc' = "filter"
    /\ UNCHANGED <<normInput, normNow, normOut, normLoop>>
    /\ UNCHANGED <<rlVars, addrVars, scanVars, mainVars>>

\* for tx in processed: one pass (lines 188-191)
FilterIterate ==
    /\ normPc = "filter"
    /\ normLoop.j < Len(normLoop.acc.processed)
    /\ normLoop' =
          IF NotSeen(normLoop.acc.processed[normLoop.j + 1], normLoop.seen_hashes)
          THEN [normLoop EXCEPT
                   !.j = normLoop.j + 1,
                   !.unique_transactions =
                        Append(normLoop.unique_transactions,
                               normLoop.acc.processed[normLoop.j + 1]),
                   !.seen_hashes = SeenAdd(normLoop.acc.processed[normLoop.j + 1],
                                           normLoop.seen_hashes)]
          ELSE [normLoop EXCEPT !.j = normLoop.j + 1]
    /\ UNCHANGED <<normInput, normNow, normPc, normOut>>
    /\ UNCHANGED <<rlVars, addrVars, scanVars, mainVars>>

\* debug_success and return unique_transactions (lines 193-195)
FilterReturn ==
    /\ normPc = "filter"
    /\ normLoop.j >= Len(normLoop.acc.processed)
    /\ normOut' = [result |-> normLoop.unique_transactions,
                   warnings |-> normLoop.acc.warnings,
                   progress |-> normLoop.acc.progress,
                   events |-> Append(normLoop.acc.events, <<"success", "PROCESS">>)]
    /\ normPc' = "done"
    /\ UNCHANGED <<normInput, normNow, normLoop>>
    /\ UNCHANGED <<rlVars, addrVars, scanVars, mainVars>>

InitBatch == BatchInit /\ RLIdle /\ AddrIdle /\ ScanIdle /\ MainIdle
NextBatch == LoopIterate \/ LoopEnd \/ FilterIterate \/ FilterReturn
SpecBatch == InitBatch /\ [][NextBatch]_vars

\* ------------------------------------------------------------- the scan
\* One thread scans; the API answers as it likes.
ScanThread == 1
ScannerRateLimit == 5
MaxScans == 2
MaxRetries == 3
BackoffSeconds == 1
\* The API is let to answer "rate limit" until one fetch has made this many
\* requests: one more than a first attempt and MaxRetries retries.
MaxAttempts == MaxRetries + 2

\* The records an answer may carry: two with the same hash and different
\* recipients, and one whose sender is null.
ScanTxFirst ==
    [BaseTx EXCEPT !["hash"] = StrS("0xabc"), !["from"] = StrQ(<<"0", "x", "A", "b">>),
                   !["to"] = StrQ(<<"0", "x", "C">>)]
ScanTxSecond == [ScanTxFirst EXCEPT !["to"] = StrQ(<<"0", "x", "d">>)]
ScanTxNullFrom == [ScanTxFirst EXCEPT !["from"] = NullQ]
ScanResultLists ==
    {<<>>, <<ScanTxFirst>>, <<ScanTxFirst, ScanTxSecond>>, <<ScanTxNullFrom>>}

\* The message of an envelope; "absent" stands for an envelope without one.
ErrorMessages == {"Max rate limit reached", "MAX RATE LIMIT", "NOTOK", "absent"}

\* The answers to one HTTP request: the request raising in transport, a
\* status other than 200, a body that is no JSON, an envelope of status "0"
\* with a message, or an envelope of status "1" with or without a result.
Responses ==
    {[NoEnvelope EXCEPT !.kind = k] : k \in {"transport", "http", "json"}}
    \cup {[kind |-> "envelope", status |-> "0", message |-> m, hasResult |-> TRUE,
            result |-> <<>>] : m \in ErrorMessages}
    \cup {[kind |-> "envelope", status |-> "1", message |-> "OK", hasResult |-> TRUE,
            result |-> r] : r \in ScanResultLists}
    \cup {[kind |-> "envelope", status |-> "1", message |-> "OK", hasResult |-> FALSE,
            result |-> <<>>]}

\* The wallet addresses scanned: one valid and one a digit short.
ValidAddress == <<"0", "x">> \o Pad(AddrLen)
ShortAddress == <<"0", "x">> \o Pad(AddrLen - 1)
ScanAddresses == {ValidAddress, ShortAddress}

\* if not self._validate_wallet_address(wallet_address)
NeverRejected(address) == FALSE
AddressRejected(address) == ~ValidateWalletAddress(address)

\* data.get('status') != '1'
EnvelopeFailedOrEmpty(data) == data.status # "1" \/ data.result = <<>>
EnvelopeFailed(data) == data.status # "1"

\* error_msg = data.get('message', 'Unknown API error')
ErrorMsg(data) == IF data.message = "absent" THEN "Unknown API error" ELSE data.message

\* 'rate limit' in error_msg.lower()
AnyMessageRetries(error_msg) == TRUE
IndicatesRateLimit(error_msg) == error_msg \in {"Max rate limit reached", "MAX RATE LIMIT"}

\* data.get('result', [])
EnvelopeResult(data) == IF data.hasResult THEN data.result ELSE <<>>

\* datetime.now(timezone.utc) at the clock's time.
ScanNow == NormNowValue + (clock \div TicksPerSecond)

\* Where the scan goes on after its except clause: `return []` (line 76).
FetchAgainAfterFailure == "admit"
AfterFailure == "returned"

\* The except clause of scan_wallet_transactions (lines 73-76), after the
\* events `seen` of the scan so far.
ScanFails(seen, message) ==
    /\ events' = Append(seen, <<"error", "SCAN">>)
    /\ critical' = critical + 1
    /\ scanReturn' = Returned(<<>>)
    /\ scanError' = message
    /\ scanPc' = AfterFailure

\* scan_wallet_transactions up to the call of rate_limiter.wait(): the
\* validation, and for a rejected address the except clause.
ScanBegin(address) ==
    /\ scanPc = "idle"
    /\ scans < MaxScans
    /\ scans' = scans + 1
    /\ scanAddr' = address
    /\ atStart' = [admitted |-> Len(admitted), sent |-> sent, requestCount |-> requestCount]
    /\ attempts' = 0
    /\ normRuns' = 0
    /\ envelope' = NoEnvelope
    /\ fetched' = <<>>
    /\ runReport' = "none"
    /\ IF AddressRejected(address)
       THEN /\ critical' = 1
            /\ events' = <<(<<"step", "SCAN">>), (<<"step", "VALIDATION">>), (<<"error", "SCAN">>)>>
            /\ scanReturn' = Returned(<<>>)
            /\ scanError' = "Invalid wallet address format"
            /\ scanPc' = "returned"
       ELSE /\ critical' = 0
            /\ events' = <<(<<"step", "SCAN">>), (<<"step", "VALIDATION">>),
                           (<<"success", "VALIDATION">>), (<<"step", "API">>)>>
            /\ scanReturn' = Returned(<<>>)
            /\ scanError' = "none"
            /\ scanPc' = "admit"
    /\ UNCHANGED <<requestCount, scanLock, sent>>
    /\ UNCHANGED <<rlVars, addrVars, normVars>>

\* A scan started on its own, as a caller of the scanner starts it.
ScanStart(address) == ScanBegin(address) /\ UNCHANGED mainVars

\* self.rate_limiter.wait() of the single scanning thread, in one step: the
\* lock is taken, the old requests are dropped, and either the admission is
\* recorded and the lock released, or the thread sleeps holding the lock.
FetchAdmit ==
    /\ scanPc = "admit"
    /\ LockFree
    /\ calls' = calls + 1
    /\ now' = [now EXCEPT ![ScanThread] = clock]
    /\ LET kept == Evict(requests, clock)
       IN IF WindowFull(kept, limit) /\ SleepTime(kept, clock) > 0
          THEN /\ requests' = kept
               /\ lock' = ScanThread
               /\ pc' = [pc EXCEPT ![ScanThread] = "sleep"]
               /\ wakeAt' = [wakeAt EXCEPT ![ScanThread] = clock + SleepTime(kept, clock)]
               /\ scanPc' = "blocked"
               /\ UNCHANGED admitted
          ELSE /\ requests' = Append(kept, clock)
               /\ admitted' = Append(admitted, clock)
               /\ scanPc' = "send"
               /\ UNCHANGED <<lock, pc, wakeAt>>
    /\ UNCHANGED <<clock, limit>>
    /\ UNCHANGED <<scanAddr, requestCount, scanLock, sent, attempts, envelope, fetched, events,
                   critical, normRuns, scanReturn, scanError, scans, atStart, runReport>>
    /\ UNCHANGED <<addrVars, normVars, mainVars>>

\* Lines 103-117: the request is announced and `with self.lock:` of the
\* scanner is entered.
FetchSend ==
    /\ scanPc = "send"
    /\ scanLock = NoThread
    /\ events' = Append(events, <<"api", "REQUEST">>)
    /\ scanLock' = ScanThread
    /\ scanPc' = "count"
    /\ UNCHANGED <<scanAddr, requestCount, sent, attempts, envelope, fetched, critical, normRuns,
                   scanReturn, scanError, scans, atStart, runReport>>
    /\ UNCHANGED <<rlVars, addrVars, normVars, mainVars>>

\* self.request_count += 1
CountedTwice(request_count) == request_count + 2
Counted(request_count) == request_count + 1

\* Lines 118-121: the request is counted, the with block is left and
\* session.get starts the request.
FetchCount ==
    /\ scanPc = "count"
    /\ requestCount' = Counted(requestCount)
    /\ scanLock' = NoThread
    /\ sent' = sent + 1
    /\ attempts' = attempts + 1
    /\ scanPc' = "http"
    /\ UNCHANGED <<scanAddr, envelope, fetched, events, critical, normRuns, scanReturn,
                   scanError, scans, atStart, runReport>>
    /\ UNCHANGED <<rlVars, addrVars, normVars, mainVars>>

\* Lines 57-71 of the scan once _get_token_transfers has returned
\* `transactions`, after the events `seen`.
ScanContinues(seen, transactions) ==
    /\ fetched' = transactions
    /\ IF transactions = <<>>
       THEN /\ events' = Append(seen, <<"warning", "API">>)
            /\ scanReturn' = Returned(<<>>)
            /\ UNCHANGED normRuns
       ELSE LET done == ProcessTransactions(transactions, ScanNow)
            IN /\ events' = seen \o <<(<<"success", "API">>), (<<"step", "PROCESS">>)>>
                              \o done.events \o <<(<<"success", "PROCESS">>)>>
               /\ scanReturn' = Returned(done.result)
               /\ normRuns' = normRuns + 1
    /\ scanPc' = "returned"
    /\ UNCHANGED <<critical, scanError>>

\* Lines 121-152: the answer r to the request arrives and is handled; an
\* exception goes through the except clauses of _get_token_transfers to the
\* one of the scan.
FetchRespond(r) ==
    /\ scanPc = "http"
    /\ envelope' = r
    /\ LET answered == Append(events, <<"api", "RESPONSE">>)
       IN CASE r.kind = "transport" ->
                 /\ ScanFails(Append(events, <<"error", "API">>), "Network error")
                 /\ UNCHANGED <<fetched, normRuns>>
            [] r.kind = "http" ->
                 /\ ScanFails(Append(answered, <<"error", "API">>), "HTTP error")
                 /\ UNCHANGED <<fetched, normRuns>>
            [] r.kind = "json" ->
                 /\ ScanFails(Append(answered, <<"error", "API">>), "JSON decode error")
                 /\ UNCHANGED <<fetched, normRuns>>
            [] r.kind = "envelope" /\ EnvelopeFailed(r) /\ IndicatesRateLimit(ErrorMsg(r)) ->
                 /\ attempts < MaxAttempts
                 /\ events' = Append(answered, <<"warning", "API">>)
                 /\ scanPc' = "backoff"
                 /\ UNCHANGED <<fetched, normRuns, critical, scanReturn, scanError>>
            [] r.kind = "envelope" /\ EnvelopeFailed(r) /\ ~IndicatesRateLimit(ErrorMsg(r)) ->
                 /\ ScanFails(Append(answered, <<"error", "API">>), ErrorMsg(r))
                 /\ UNCHANGED <<fetched, normRuns>>
            [] r.kind = "envelope" /\ ~EnvelopeFailed(r) ->
                 /\ ScanContinues(Append(answered, <<"success", "API">>), EnvelopeResult(r))
    /\ UNCHANGED <<scanAddr, requestCount, scanLock, sent, attempts, scans, atStart, runReport>>
    /\ UNCHANGED <<rlVars, addrVars, normVars, mainVars>>

\* Where the retry `return self._get_token_transfers(wallet_address)` begins:
\* at the top of the function, with self.rate_limiter.wait().
RetryWithoutWait == "send"
RetryEntry == "admit"

\* time.sleep(1), which takes the thread one second, and
\* _get_token_transfers calling itself.
BackoffWake ==
    /\ scanPc = "backoff"
    /\ clock' = clock + BackoffSeconds * TicksPerSecond
    /\ scanPc' = RetryEntry
    /\ UNCHANGED <<scanAddr, requestCount, scanLock, sent, attempts, envelope, fetched, events,
                   critical, normRuns, scanReturn, scanError, scans, atStart, runReport>>
    /\ UNCHANGED <<limit, requests, lock, pc, now, wakeAt, admitted, calls>>
    /\ UNCHANGED <<addrVars, normVars, mainVars>>

\* run_scan, lines 97-101: the list returned is tested for emptiness; an
\* empty one is reported as "No transactions found", and the saving of any
\* other one (lines 103-134) is summed up as "saved".
RunScanEnd ==
    /\ scanPc = "returned"
    /\ runReport' = IF scanReturn.value = <<>> THEN "No transactions found" ELSE "saved"
    /\ scanPc' = "idle"
    /\ UNCHANGED <<scanAddr, requestCount, scanLock, sent, attempts, envelope, fetched, events,
                   critical, normRuns, scanReturn, scanError, scans, atStart>>
    /\ UNCHANGED <<rlVars, addrVars, normVars>>

RunScanReturn == RunScanEnd /\ UNCHANGED mainVars

ScanRLInit ==
    /\ clock = 0
    /\ limit = ScannerRateLimit
    /\ requests = <<>>
    /\ lock = NoThread
    /\ pc = [t \in Threads |-> "idle"]
    /\ now = [t \in Threads |-> 0]
    /\ wakeAt = [t \in Threads |-> 0]
    /\ admitted = <<>>
    /\ calls = 0

InitScan == ScanRLInit /\ ScanIdle /\ AddrIdle /\ NormIdle /\ MainIdle
NextScan ==
    \/ Tick
    \/ \E address \in ScanAddresses : ScanStart(address)
    \/ FetchAdmit
    \/ FetchSend
    \/ FetchCount
    \/ \E r \in Responses : FetchRespond(r)
    \/ BackoffWake
    \/ RunScanReturn
SpecScan == InitScan /\ [][NextScan]_vars

\* ------------------------------------------------- the scan, lock by lock
\* The same scan with rate_limiter.wait() taken step by step, so that the
\* limiter's lock is seen held. The requests of MaxScans scans leave the
\* window of ScannerRateLimit requests a second with room, so the scanning
\* thread never sleeps in wait() and has no step out of that sleep here.

\* self.rate_limiter.wait() is called (line 101).
ScanWaitCall ==
    /\ scanPc = "admit"
    /\ pc[ScanThread] = "idle"
    /\ pc' = [pc EXCEPT ![ScanThread] = "acquire"]
    /\ calls' = calls + 1
    /\ scanPc' = "wait"
    /\ UNCHANGED <<clock, limit, requests, lock, now, wakeAt, admitted>>
    /\ UNCHANGED <<scanAddr, requestCount, scanLock, sent, attempts, envelope, fetched, events,
                   critical, normRuns, scanReturn, scanError, scans, atStart, runReport>>
    /\ UNCHANGED <<addrVars, normVars, mainVars>>

\* self.rate_limiter.wait() has returned.
ScanWaitReturn ==
    /\ scanPc = "wait"
    /\ pc[ScanThread] = "idle"
    /\ scanPc' = "send"
    /\ UNCHANGED <<scanAddr, requestCount, scanLock, sent, attempts, envelope, fetched, events,
                   critical, normRuns, scanReturn, scanError, scans, atStart, runReport>>
    /\ UNCHANGED <<rlVars, addrVars, normVars, mainVars>>

NextLocks ==
    \/ Tick
    \/ \E address \in ScanAddresses : ScanStart(address)
    \/ ScanWaitCall
    \/ WaitAcquire(ScanThread)
    \/ WaitEvict(ScanThread)
    \/ WaitCheck(ScanThread)
    \/ WaitAppend(ScanThread)
    \/ ScanWaitReturn
    \/ FetchSend
    \/ FetchCount
    \/ \E r \in Responses : FetchRespond(r)
    \/ BackoffWake
    \/ RunScanReturn
SpecLocks == InitScan /\ [][NextLocks]_vars

\* ------------------------------------------------------- the command line
\* The credentials file: missing, no JSON, or a JSON object in which
\* bscscan_api_key is absent, null, a number, or a string.
MinKeyLen == 20
MaxPrompts == 1

\* valid_chars = set('ABCDEFGHIJKLMNOPQRSTUVWXYZ0123456789')
ValidChars ==
    {"A", "B", "C", "D", "E", "F", "G", "H", "I", "J", "K", "L", "M", "N", "O", "P", "Q", "R",
     "S", "T", "U", "V", "W", "X", "Y", "Z", "0", "1", "2", "3", "4", "5", "6", "7", "8", "9"}

\* str.upper(), on the letters that the keys tried are made of.
UpperChar(c) == CASE c = "a" -> "A" [] OTHER -> c
Upper(s) == [i \in 1..Len(s) |-> UpperChar(s[i])]

\* Config._validate_api_key
ValidateApiKey(api_key) ==
    /\ api_key.k = "str"
    /\ Len(api_key.s) >= MinKeyLen
    /\ \A i \in 1..Len(api_key.s) : Upper(api_key.s)[i] \in ValidChars

\* Config.get_api_key on the credentials file
GetApiKey(file) ==
    CASE file.k = "nofile" -> KeyError("Configuration error")
      [] file.k = "badjson" -> KeyError("Invalid JSON in configuration file")
      [] file.k \in {"absent", "null"} \/ (file.k = "str" /\ file.s = <<>>) ->
           KeyError("Configuration loading failed: API key not found in configuration file")
      [] OTHER ->
           IF ValidateApiKey(file)
           THEN KeyLoaded(file.s)
           ELSE KeyError("Configuration loading failed: Invalid API key format")

\* The credentials files tried: keys of MinKeyLen characters, one fewer and
\* one more, all "A" but for one character.
KeyAlphabet == {"A", "7", "a", "-"}
KeyOf(n, c, at) == [i \in 1..n |-> IF i = at THEN c ELSE "A"]
Keys ==
    {KeyOf(n, c, MinKeyLen - 1) : n \in (MinKeyLen - 1)..(MinKeyLen + 1), c \in KeyAlphabet}
ConfigFiles ==
    {[k |-> kind, s |-> <<>>] : kind \in {"nofile", "badjson", "absent", "null", "number", "str"}}
    \cup {[k |-> "str", s |-> key] : key \in Keys}

\* The command lines tried: sys.argv[1:] of a scan of either address in
\* either version, and one for each way main turns a command line down.
ScanArgv(wallet, version) ==
    [argc |-> 6, command |-> "sc", wallet |-> wallet, action |-> "p", version |-> version]
Argvs ==
    {ScanArgv(w, v) : w \in ScanAddresses, v \in {"Vv", "vf"}}
    \cup {NoArgv,
          [NoArgv EXCEPT !.argc = 2, !.command = "help"],
          [NoArgv EXCEPT !.argc = 2, !.command = "SCAN"],
          [NoArgv EXCEPT !.argc = 6, !.command = "run"],
          [ScanArgv(ValidAddress, "Vv") EXCEPT !.action = "x"],
          [ScanArgv(ValidAddress, "Vv") EXCEPT !.version = "v1"]}

\* str.lower(), on the words of the command lines tried.
LowerWord(w) == CASE w = "SCAN" -> "scan" [] w = "Vv" -> "vv" [] OTHER -> w

\* main returns, or an exception leaves it: the interpreter ends the process
\* with status 0, or with status 1 after a traceback.
MainReturns(lines) ==
    /\ printed' = printed \o lines
    /\ mainPc' = "exit"
    /\ exitStatus' = 0
MainRaises(lines) ==
    /\ printed' = printed \o lines \o <<"Traceback">>
    /\ mainPc' = "exit"
    /\ exitStatus' = 1

\* main, lines 179-213: the command line is taken apart.
MainArgs ==
    /\ mainPc = "args"
    /\ LET command == LowerWord(argv.command)
       IN IF argv.argc < 2 \/ command \in {"h", "help"}
          THEN MainReturns(<<"help">>)
          ELSE IF command \notin {"sc", "scan"}
          THEN MainReturns(<<"Error: Unknown command">>)
          ELSE IF argv.argc # 6
          THEN MainReturns(<<"Error: Invalid number of arguments.", "help">>)
          ELSE IF LowerWord(argv.action) \notin {"p", "print"}
          THEN MainReturns(<<"Error: Invalid action">>)
          ELSE IF LowerWord(argv.version) \notin {"vv", "vf"}
          THEN MainReturns(<<"Error: Invalid version">>)
          ELSE /\ mainPc' = "initialize"
               /\ UNCHANGED <<printed, exitStatus>>
    /\ UNCHANGED <<argv, configFile, apiKey, outputFile, runReturn>>
    /\ UNCHANGED <<rlVars, addrVars, normVars, scanVars>>

\* main, lines 216-221, and AliceBot.initialize: the key is loaded; a
\* failure is reported and main returns, otherwise the welcome is shown.
MainInitialize ==
    /\ mainPc = "initialize"
    /\ apiKey' = GetApiKey(configFile)
    /\ IF apiKey'.raised
       THEN MainReturns(<<"step INIT", "error INIT",
                          "Failed to initialize bot. Check configuration and try again.">>)
       ELSE /\ printed' = printed \o <<"step INIT", "step INIT", "success INIT", "welcome">>
            /\ mainPc' = "confirm"
            /\ UNCHANGED exitStatus
    /\ UNCHANGED <<argv, configFile, outputFile, runReturn>>
    /\ UNCHANGED <<rlVars, addrVars, normVars, scanVars>>

Prompted == Cardinality({i \in 1..Len(printed) : printed[i] = "warning INPUT"})

\* AliceBot.confirm_scan and lines 224-225 of main: one answer to the prompt.
MainConfirm(choice) ==
    /\ mainPc = "confirm"
    /\ CASE choice = "y" ->
              /\ mainPc' = "run_scan"
              /\ UNCHANGED <<printed, exitStatus>>
         [] choice \in {"n", "KeyboardInterrupt"} -> MainReturns(<<"goodbye">>)
         [] choice = "EOFError" -> MainRaises(<<>>)
         [] OTHER ->
              /\ Prompted < MaxPrompts
              /\ printed' = Append(printed, "warning INPUT")
              /\ UNCHANGED <<mainPc, exitStatus>>
    /\ UNCHANGED <<argv, configFile, apiKey, outputFile, runReturn>>
    /\ UNCHANGED <<rlVars, addrVars, normVars, scanVars>>

\* main, line 228, and run_scan up to the scanner's call of wait().
MainRunScan ==
    /\ mainPc = "run_scan"
    /\ ScanBegin(argv.wallet)
    /\ mainPc' = "scanning"
    /\ UNCHANGED <<argv, configFile, apiKey, printed, exitStatus, outputFile, runReturn>>

\* A line of the output file, as <<label, text>>.
FullHeader ==
    <<(<<"title", "ALICE Bot - Full Transaction Data">>), (<<"rule", "=">>), (<<"empty", "">>)>>
FromHeader ==
    <<(<<"title", "ALICE Bot - Wallet Addresses (From)">>), (<<"rule", "=">>), (<<"empty", "">>)>>

\* The seven writes of lines 149-155 for one record.
FullBlock(tx) ==
    <<(<<"Hash", tx.hash>>), (<<"Method", tx.method>>), (<<"Age", tx.age>>),
      (<<"From", tx.from>>), (<<"To", tx.to>>), (<<"Token", tx.token>>), (<<"rule", "-">>)>>

\* tx['hash'][:10] of line 158, after the writes: None cannot be sliced, and
\* the TypeError leaves the loop, the `with` block, which closes the file
\* with what was written, and save_full_version.
Sliceable(hash) == hash # NoneHash
Sliceables(transactions) == \A i \in 1..Len(transactions) : Sliceable(transactions[i].hash)

\* save_full_version: the file it writes.
RECURSIVE FullBlocks(_)
FullBlocks(transactions) ==
    IF transactions = <<>> THEN <<>>
    ELSE IF ~Sliceable(Head(transactions).hash) THEN FullBlock(Head(transactions))
    ELSE FullBlock(Head(transactions)) \o FullBlocks(Tail(transactions))
SaveFullVersion(transactions) ==
    [exists |-> TRUE, lines |-> FullHeader \o FullBlocks(transactions)]

\* list(set(tx['from'] for tx in transactions)): the distinct senders, in
\* any of the orders the set may be listed in.
FromSet(transactions) == {transactions[i].from : i \in 1..Len(transactions)}
Listings(S) ==
    {order \in [1..Cardinality(S) -> S] :
        \A i, j \in 1..Cardinality(S) : order[i] = order[j] => i = j}

\* save_from_version with the set listed as from_addresses.
SaveFromVersion(from_addresses) ==
    [exists |-> TRUE,
     lines |-> FromHeader \o [i \in 1..Len(from_addresses) |-> <<"address", from_addresses[i]>>]]

\* run_scan from line 99 on, for the list the scan returned: without
\* transactions it returns False; else the file is opened for writing and
\* written in the version asked for, and an exception on the way makes
\* run_scan return False (lines 136-138).
RunScanSaves(transactions, version) ==
    IF transactions = <<>>
    THEN /\ runReturn' = "False"
         /\ UNCHANGED outputFile
    ELSE IF LowerWord(version) = "vv"
    THEN /\ outputFile' = SaveFullVersion(transactions)
         /\ runReturn' = IF Sliceables(transactions) THEN "True" ELSE "False"
    ELSE IF LowerWord(version) = "vf"
    THEN /\ \E from_addresses \in Listings(FromSet(transactions)) :
               outputFile' = SaveFromVersion(from_addresses)
         /\ runReturn' = "True"
    ELSE /\ runReturn' = "False"
         /\ UNCHANGED outputFile

\* run_scan goes on from the scan's return to its own, its value is dropped
\* (line 228), and main returns.
MainRunScanReturn ==
    /\ mainPc = "scanning"
    /\ RunScanEnd
    /\ RunScanSaves(scanReturn.value, argv.version)
    /\ MainReturns(<<>>)
    /\ UNCHANGED <<argv, configFile, apiKey>>

MainInit ==
    /\ outputFile = NoFile
    /\ runReturn = "none"
    /\ argv \in Argvs
    /\ configFile \in ConfigFiles
    /\ mainPc = "args"
    /\ apiKey = KeyError("")
    /\ printed = <<>>
    /\ exitStatus = -1

InitMain == MainInit /\ ScanRLInit /\ ScanIdle /\ AddrIdle /\ NormIdle
NextMain ==
    \/ MainArgs
    \/ MainInitialize
    \/ \E choice \in {"y", "n", "x", "KeyboardInterrupt", "EOFError"} : MainConfirm(choice)
    \/ MainRunScan
    \/ Tick
    \/ FetchAdmit
    \/ FetchSend
    \/ FetchCount
    \/ \E r \in Responses : FetchRespond(r)
    \/ BackoffWake
    \/ MainRunScanReturn
SpecMain == InitMain /\ [][NextMain]_vars

\* ------------------------------------------------------- the output file
\* run_scan on the lists a scan may return, with and without a file left
\* by an earlier run.
MaxSaved == 3
SaveHashes == {StrS("0x1"), StrS("0x2"), NullS}
SaveFroms == {StrQ(<<"0", "x", "A", "b">>), StrQ(<<"0", "x", "a", "b">>),
              StrQ(<<"0", "x", "C">>), NullQ}
SaveRecords ==
    {[BaseTx EXCEPT !["hash"] = h, !["from"] = f, !["to"] = StrQ(<<"0", "x", "d">>)] :
        h \in SaveHashes, f \in SaveFroms}
ScanResults ==
    {ProcessTransactions(raw, NormNowValue).result : raw \in SeqsUpTo(SaveRecords, MaxSaved)}
EarlierFile == [exists |-> TRUE, lines |-> <<(<<"title", "earlier">>)>>]

\* The scan has returned to run_scan, which main called after the prompt.
SaveInit ==
    /\ argv \in {ScanArgv(ValidAddress, v) : v \in {"Vv", "vf"}}
    /\ configFile = [k |-> "str", s |-> KeyOf(MinKeyLen, "A", MinKeyLen)]
    /\ apiKey = GetApiKey(configFile)
    /\ mainPc = "scanning"
    /\ printed = <<"step INIT", "step INIT", "success INIT", "welcome">>
    /\ exitStatus = -1
    /\ outputFile \in {NoFile, EarlierFile}
    /\ runReturn = "none"
    /\ scanPc = "returned"
    /\ scanAddr = argv.wallet
    /\ scanReturn \in {Returned(r) : r \in ScanResults}
    /\ scanError \in {"none", "NOTOK"}
    /\ scanError = "NOTOK" => scanReturn = Returned(<<>>)
    /\ requestCount = 1
    /\ scanLock = NoThread
    /\ sent = 1
    /\ attempts = 1
    /\ envelope = NoEnvelope
    /\ fetched = <<>>
    /\ events = <<>>
    /\ critical = IF scanError = "none" THEN 0 ELSE 1
    /\ normRuns = 0
    /\ scans = 1
    /\ atStart = [admitted |-> 0, sent |-> 0, requestCount |-> 0]
    /\ runReport = "none"
InitSave == SaveInit /\ ScanRLInit /\ AddrIdle /\ NormIdle
SpecSave == InitSave /\ [][MainRunScanReturn]_vars

\* --------------------------------------------------------------- claims
\* The admissions whose timestamp lies in the one-second window ending at ts.
InWindow(ts) ==
    {j \in 1..Len(admitted) : admitted[j] <= ts /\ ts - admitted[j] < TicksPerSecond}

\* C1: at most `limit` admissions carry a timestamp inside any rolling
\* one-second window: no window ending at a recorded admission holds more
\* than `limit` recorded admissions.
C1_AtMostLimitPerWindow ==
    \A i \in 1..Len(admitted) : Cardinality(InWindow(admitted[i])) <= limit

\* C1 witness: the window is full (limit admissions less than a second old)
\* and a further caller has arrived and found it full.
C1_Witness ==
    /\ Len(admitted) >= limit
    /\ Cardinality(InWindow(clock)) = limit
    /\ \E t \in Threads : pc[t] = "sleep"

\* C2: a call of wait() never ends up waiting for the lock that the caller
\* itself holds, so every call can go on to record its admission.
C2_NeverWaitsOnOwnLock ==
    \A t \in Threads : ~(pc[t] = "recheck" /\ lock = t)

\* C3: check and record are atomic: no two threads are between the check
\* and the recording at the same time, and the window never holds more than
\* `limit` entries younger than one second.
InsideLock(t) == pc[t] \in {"evict", "check", "sleep", "recheck", "append"}
C3_CheckAndRecordAtomic ==
    /\ \A t1, t2 \in Threads : (InsideLock(t1) /\ InsideLock(t2)) => t1 = t2
    /\ Cardinality({i \in 1..Len(requests) : clock - requests[i] < TicksPerSecond}) <= limit

\* C3 witness: one caller is about to record while another is waiting to enter.
C3_Witness ==
    \E t1, t2 \in Threads :
        /\ t1 # t2
        /\ pc[t1] = "append"
        /\ pc[t2] = "acquire"
        /\ Len(requests) = limit - 1
\* The claimed criterion: after one optional 0x prefix, exactly AddrLen
\* characters, every one a hex digit.
StrippedOnce(s) == IF StartsWith0x(s) THEN DropTwo(s) ELSE s
PlainHexAddress(s) == Len(StrippedOnce(s)) = AddrLen /\ OnlyHexDigits(StrippedOnce(s))

\* C7: address validation accepts exactly the strings that, after one
\* optional 0x prefix is stripped, are 40 hex digits, and rejects all others.
C7_AcceptsExactlyHex40 ==
    addrPc = "done" =>
        /\ addrScanner = PlainHexAddress(addrInput)
        /\ addrUtils = PlainHexAddress(addrInput)
\* What the claims about _process_transactions speak of: the hash a raw
\* record carries, whether its transformation succeeds, and its transform.
RawHash(i) == HashOf(Get(normInput[i], "hash", StrS("N/A")))
Succeeds(i) == ProcessTx(normInput[i], normNow).ok
Transform(i) == ProcessTx(normInput[i], normNow).rec
RawIndexes == 1..Len(normInput)
OutIndexes == 1..Len(normOut.result)
Min(S) == CHOOSE x \in S : \A y \in S : x <= y
NoTwoSameHash ==
    \A k1, k2 \in OutIndexes :
        normOut.result[k1].hash = normOut.result[k2].hash => k1 = k2
UniqueInput == \A i, j \in RawIndexes : RawHash(i) = RawHash(j) => i = j

\* The first raw record carrying hash h, and the first one that carries it
\* and is transformed successfully.
FirstWith(h) == Min({i \in RawIndexes : RawHash(i) = h})
FirstOkWith(h) == Min({i \in RawIndexes : RawHash(i) = h /\ Succeeds(i)})

\* C6 as claimed: the result holds exactly one record for every hash of the
\* input, the transform of the first raw record carrying that hash, and the
\* kept records are in input order.
C6_DedupOverAllInput ==
    normPc = "done" =>
        /\ NoTwoSameHash
        /\ \A i \in RawIndexes :
              \E k \in OutIndexes :
                  /\ normOut.result[k].hash = RawHash(i)
                  /\ Succeeds(FirstWith(RawHash(i)))
                  /\ normOut.result[k] = Transform(FirstWith(RawHash(i)))
        /\ \A k1, k2 \in OutIndexes :
              k1 < k2 => FirstWith(normOut.result[k1].hash) < FirstWith(normOut.result[k2].hash)

\* C6 as amended: the result holds no two records with the same hash; it
\* holds exactly one record for every hash carried by a raw record whose
\* transformation succeeds, the transform of the first such record, and no
\* record for any other hash; the kept records are in input order.
C6_DedupOverTransformed ==
    normPc = "done" =>
        /\ NoTwoSameHash
        /\ \A i \in RawIndexes :
              Succeeds(i) =>
                  \E k \in OutIndexes :
                      /\ normOut.result[k].hash = RawHash(i)
                      /\ normOut.result[k] = Transform(FirstOkWith(RawHash(i)))
        /\ \A k \in OutIndexes :
              \E i \in RawIndexes : Succeeds(i) /\ RawHash(i) = normOut.result[k].hash
        /\ \A k1, k2 \in OutIndexes :
              k1 < k2 =>
                  FirstOkWith(normOut.result[k1].hash) < FirstOkWith(normOut.result[k2].hash)

\* C6 witness: a hash is repeated, the first record carrying it fails, two
\* later ones succeed with different transforms, and the result is there.
C6_Witness ==
    /\ normPc = "done"
    /\ \E i, j, l \in RawIndexes :
          /\ i < j /\ j < l
          /\ RawHash(i) = RawHash(j) /\ RawHash(j) = RawHash(l)
          /\ ~Succeeds(i) /\ Succeeds(j) /\ Succeeds(l)
          /\ Transform(j) # Transform(l)
          /\ Len(normOut.result) = 1

\* C10 as claimed: on input without a repeated hash the result has the
\* input's length and its i-th record is the transform of the i-th raw record.
C10_UniqueInputKeptWhole ==
    (normPc = "done" /\ UniqueInput) =>
        /\ Len(normOut.result) = Len(normInput)
        /\ \A i \in RawIndexes : Succeeds(i) /\ normOut.result[i] = Transform(i)

\* The raw index of the k-th record whose transformation succeeds.
OkUpTo(i) == {j \in 1..i : Succeeds(j)}
NthOk(k) == CHOOSE i \in RawIndexes : Succeeds(i) /\ Cardinality(OkUpTo(i)) = k

\* C10 as amended: on input without a repeated hash the result is the
\* sequence of the transforms of the raw records whose transformation
\* succeeds, in input order; it has the input's length when none fails.
C10_UniqueInputKeptInOrder ==
    (normPc = "done" /\ UniqueInput) =>
        /\ Len(normOut.result) = Cardinality(OkUpTo(Len(normInput)))
        /\ \A k \in OutIndexes : normOut.result[k] = Transform(NthOk(k))

\* C10 witness: three records with three hashes, the middle one failing,
\* and a result of the other two.
C10_Witness ==
    /\ normPc = "done"
    /\ UniqueInput
    /\ Len(normInput) = 3
    /\ Succeeds(1) /\ ~Succeeds(2) /\ Succeeds(3)
    /\ Len(normOut.result) = 2
\* C4: one fetch makes at most one first attempt and MaxRetries retries:
\* after the last of them a further "rate limit" answer ends the fetch with
\* an error rather than with another backoff.
C4_RetriesBounded ==
    /\ attempts <= MaxRetries + 1
    /\ scanPc = "backoff" => attempts <= MaxRetries

\* What scan_wallet_transactions returns after a fetch that succeeded with
\* an empty result.
EmptySuccess == Returned(<<>>)

\* C5: a scan whose fetch step failed does not end the way a successful
\* scan with an empty result ends, and its caller does not report it the
\* way it reports a successful scan without transactions.
C5_FailureToldApart ==
    (scanError # "none" /\ attempts > 0) =>
        /\ scanPc = "returned" => scanReturn # EmptySuccess
        /\ runReport # "No transactions found"

\* C8: a scan of an address that fails validation ends with the
\* invalid-address error, and in it no admission is recorded, no request is
\* sent, request_count is unchanged and no normalization runs.
C8_InvalidAddressTouchesNothing ==
    (scanPc \notin {"idle"} /\ ~ValidateWalletAddress(scanAddr)) =>
        /\ scanPc = "returned"
        /\ scanError = "Invalid wallet address format"
        /\ Len(admitted) = atStart.admitted
        /\ sent = atStart.sent
        /\ requestCount = atStart.requestCount
        /\ attempts = 0
        /\ normRuns = 0

\* C8 witness: a scan of an invalid address has ended after an earlier scan
\* that was admitted and sent requests.
C8_Witness ==
    /\ scanPc = "returned"
    /\ ~ValidateWalletAddress(scanAddr)
    /\ requestCount > 0
    /\ Len(admitted) > 0

ErrorEvents == {i \in 1..Len(events) : events[i][1] = "error"}
SuccessEnvelope == envelope.kind = "envelope" /\ envelope.status = "1"

\* C9: after a success envelope the fetch has returned exactly the
\* envelope's result list, and when that list is empty the scan ends with
\* an empty result, no error event and no critical-error display.
C9_SuccessEnvelopeReturnsResult ==
    (scanPc = "returned" /\ SuccessEnvelope) =>
        /\ fetched = EnvelopeResult(envelope)
        /\ envelope.hasResult => fetched = envelope.result
        /\ fetched = <<>> =>
              /\ scanReturn = EmptySuccess
              /\ scanError = "none"
              /\ ErrorEvents = {}
              /\ critical = 0

\* C9 witness: a scan has ended on a success envelope with an empty result
\* list, received after a retry.
C9_Witness ==
    /\ scanPc = "returned"
    /\ SuccessEnvelope
    /\ envelope.hasResult
    /\ envelope.result = <<>>
    /\ attempts > 1

\* The raw records whose transformation fails, the input without them, and
\* the warning events of the run.
Failing == {i \in RawIndexes : ~Succeeds(i)}
TransformOk(tx) == ProcessTx(tx, normNow).ok
Survivors == SelectSeq(normInput, TransformOk)
WarningEvents == {j \in 1..Len(normOut.events) : normOut.events[j] = <<"warning", "PROCESS">>}

\* C11: every raw record whose transformation fails is skipped with exactly
\* one warning event and the batch goes on to its end: the warnings name the
\* failing records, each once and in input order, the run ends with its
\* success event, and the result is the one the input without the failing
\* records gives.
C11_FailingRecordSkipped ==
    normPc = "done" =>
        /\ Len(normOut.warnings) = Cardinality(Failing)
        /\ \A i \in Failing :
              Cardinality({j \in 1..Len(normOut.warnings) : normOut.warnings[j] = i - 1}) = 1
        /\ \A j1, j2 \in 1..Len(normOut.warnings) :
              j1 < j2 => normOut.warnings[j1] < normOut.warnings[j2]
        /\ Cardinality(WarningEvents) = Cardinality(Failing)
        /\ normOut.events[Len(normOut.events)] = <<"success", "PROCESS">>
        /\ normOut.result = ProcessTransactions(Survivors, normNow).result
        /\ \A i \in RawIndexes :
              Succeeds(i) => \E k \in OutIndexes : normOut.result[k].hash = RawHash(i)

\* C11 witness: the first two records of three fail, the third is
\* transformed and is the whole result, after two warnings.
C11_Witness ==
    /\ normPc = "done"
    /\ Len(normInput) = 3
    /\ ~Succeeds(1) /\ ~Succeeds(2) /\ Succeeds(3)
    /\ Len(normOut.warnings) = 2
    /\ normOut.result = <<Transform(3)>>

\* The answers a fetch can get, by what the claims say of them: the one
\* asking for a retry, and those ending the fetch with their own message.
RateLimitTexts == {m \in ErrorMessages : m \in {"Max rate limit reached", "MAX RATE LIMIT"}}
RateLimited(r) == r.kind = "envelope" /\ r.status # "1" /\ r.message \in RateLimitTexts
Rejection(r) == r.kind = "envelope" /\ r.status # "1" /\ r.message \notin RateLimitTexts
EndsFetch(r) == r.kind \in {"http", "json"} \/ Rejection(r)
FetchMessage(r) ==
    CASE r.kind = "http" -> "HTTP error"
      [] r.kind = "json" -> "JSON decode error"
      [] OTHER -> ErrorMsg(r)
AttemptAhead ==
    scanPc = "backoff" \/ (scanPc \in {"admit", "blocked", "send", "count"} /\ attempts > 0)

ScanFailed == apiKey.raised \/ scanError # "none"

\* C14: when the scan of a command line fails (invalid address,
\* configuration, network, protocol or API error), the tool has reported it
\* and the process ends with a status other than 0, without a traceback.
C14_FailedScanExitsNonZero ==
    (mainPc = "exit" /\ ScanFailed) =>
        /\ exitStatus # 0
        /\ "Traceback" \notin {printed[i] : i \in 1..Len(printed)}
        /\ apiKey.raised \/ critical = 1

\* The keys the claimed format check accepts: strings of at least MinKeyLen
\* characters, each an uppercase letter or a digit.
UppercaseKey(file) ==
    /\ file.k = "str"
    /\ Len(file.s) >= MinKeyLen
    /\ \A i \in 1..Len(file.s) : file.s[i] \in ValidChars
KeyLoadingRan == ~apiKey.raised \/ apiKey.message # ""

\* C15: loading the API key fails with a configuration error exactly when
\* the key is absent or is not a string of at least 20 characters made only
\* of uppercase letters and digits; a key with a lowercase letter fails.
C15_KeyFormatUppercaseOnly ==
    KeyLoadingRan =>
        /\ apiKey.raised <=> ~UppercaseKey(configFile)
        /\ ~apiKey.raised => apiKey.key = configFile.s

\* The records of the result that carry the hash of the i-th raw record, and
\* the raw records that no null sender or recipient makes fail.
Emitted(i) == {k \in OutIndexes : normOut.result[k].hash = RawHash(i)}
PartiesGiven(tx) ==
    Get(tx, "from", StrQ(NotAvailable)).k = "str" /\ Get(tx, "to", StrQ(NotAvailable)).k = "str"

\* The method as claimed: the function name when there is one, else for
\* input data that is present what its leading ten characters are mapped
\* to, "unknown" when they are not a known signature, and "transfer" only
\* without input data.
ClaimedMethod(tx) ==
    IF tx["functionName"].k = "str" /\ tx["functionName"].s # ""
    THEN tx["functionName"].s
    ELSE IF tx["input"].k = "str" /\ tx["input"].s # <<>>
    THEN (IF Len(tx["input"].s) >= SigLen THEN MethodMap(SubSeq(tx["input"].s, 1, SigLen))
          ELSE "unknown")
    ELSE "transfer"

\* C16: the method of every record is the explicit function name if there
\* is one; otherwise, for present input data, the entry of its leading ten
\* characters among the five signatures or "unknown"; "transfer" by default
\* only when no input data is present at all.
C16_MethodByNameThenSignature ==
    (normPc = "done" /\ UniqueInput) =>
        \A i \in RawIndexes : \A k \in Emitted(i) :
            normOut.result[k].method = ClaimedMethod(normInput[i])

\* The amount conversion of a raw record fails: value or tokenDecimal is
\* not an integer literal.
ConversionFails(tx) ==
    \/ ~PyIntOk(Get(tx, "value", StrQ(<<"0">>)))
    \/ ~PyIntOk(Get(tx, "tokenDecimal", StrQ(DefaultDecimals)))
SymbolAndName(tx) ==
    [amount |-> FALSE, text |-> <<>>,
     symbol |-> Get(tx, "tokenSymbol", StrS("UNK")).s,
     name |-> Get(tx, "tokenName", StrS("Unknown")).s]

\* C17: every raw record whose amount conversion fails, for its value or
\* for its token decimals, is in the result all the same, with the token
\* "{symbol} ({name})" without an amount.
C17_ConversionFailureKeepsRecord ==
    (normPc = "done" /\ UniqueInput) =>
        \A i \in RawIndexes :
            (ConversionFails(normInput[i]) /\ PartiesGiven(normInput[i])) =>
                \E k \in Emitted(i) : normOut.result[k].token = SymbolAndName(normInput[i])

\* The six-digit texts of v / 10^d: the quotient itself when it has no more
\* than six fractional digits, else the two six-digit numbers around it.
ClaimedAmounts(v, d) ==
    IF d <= AmountDigits THEN {FixedText(v \o Zeros(AmountDigits - d))}
    ELSE LET n == d - AmountDigits
             padded == IF Len(v) <= n THEN Zeros(n + 1 - Len(v)) \o v ELSE v
             below == BigNorm(SubSeq(padded, 1, Len(padded) - n))
             exact == \A j \in (Len(padded) - n + 1)..Len(padded) : padded[j] = 0
         IN IF exact THEN {FixedText(below)}
            ELSE {FixedText(below), FixedText(BigIncr(below))}
NumericToken(tx) ==
    /\ PyIntOk(Get(tx, "value", StrQ(<<"0">>)))
    /\ ~PyIntNegative(Get(tx, "value", StrQ(<<"0">>)))
    /\ PyInt(Get(tx, "tokenDecimal", StrQ(DefaultDecimals))).ok
    /\ PyInt(Get(tx, "tokenDecimal", StrQ(DefaultDecimals))).v >= 0

\* C18: for a numeric value v and decimals d >= 0 the token is
\* "<amount> <symbol> (<name>)" with the amount v / 10^d written with
\* exactly six fractional digits: "k.000000" for v = k * 10^d.
C18_AmountIsQuotientToSixDigits ==
    (normPc = "done" /\ UniqueInput) =>
        \A i \in RawIndexes :
            (NumericToken(normInput[i]) /\ PartiesGiven(normInput[i])) =>
                \E k \in Emitted(i) :
                    LET token == normOut.result[k].token
                    IN /\ token.amount
                       /\ token.text \in
                            ClaimedAmounts(
                                BigOf(Unsigned(Get(normInput[i], "value", StrQ(<<"0">>)))),
                                PyInt(Get(normInput[i], "tokenDecimal", StrQ(DefaultDecimals))).v)
                       /\ token.symbol = SymbolAndName(normInput[i]).symbol
                       /\ token.name = SymbolAndName(normInput[i]).name

\* The age as claimed, with inclusive boundaries.
ClaimedAge(timestamp_str, nowTs) ==
    LET timestamp == PyInt(timestamp_str)
        secs == nowTs - timestamp.v
    IN IF ~timestamp.ok THEN [n |-> 0, text |-> "Unknown"]
       ELSE IF secs >= SecondsPerDay THEN [n |-> secs \div SecondsPerDay, text |-> "days ago"]
       ELSE IF secs >= SecondsPerHour
            THEN [n |-> secs \div SecondsPerHour, text |-> "hours ago"]
       ELSE IF secs >= SecondsPerMinute
            THEN [n |-> secs \div SecondsPerMinute, text |-> "minutes ago"]
       ELSE [n |-> 0, text |-> "Just now"]

\* C19: the age of every record is "{N} days ago" from 86400 seconds on,
\* else "{N} hours ago" from 3600 seconds on, else "{N} minutes ago" from 60
\* seconds on, else "Just now", and "Unknown" for an unparsable timestamp.
C19_AgeBoundariesInclusive ==
    (normPc = "done" /\ UniqueInput) =>
        \A i \in RawIndexes : \A k \in Emitted(i) :
            normOut.result[k].age
                = ClaimedAge(Get(normInput[i], "timeStamp", StrQ(<<"0">>)), normNow)

\* The sender or recipient as claimed: the lowercase form of the raw field,
\* and "N/A" when the field is absent.
ClaimedParty(f) == IF f.k = "absent" THEN NotAvailable ELSE Lower(f.s)

\* C20: in every record of the result, from and to are the lowercase form
\* of the raw record's sender and recipient, and "N/A" when the raw field is
\* absent.
C20_PartiesLowercaseOrDefault ==
    (normPc = "done" /\ UniqueInput) =>
        \A i \in RawIndexes : \A k \in Emitted(i) :
            /\ normOut.result[k].from = ClaimedParty(normInput[i]["from"])
            /\ normOut.result[k].to = ClaimedParty(normInput[i]["to"])

\* ---------------------------------------------------------------- C21
\* The timestamp list is within the limit.
WithinLimit == Len(requests) <= limit

\* A thread at the admission check of its call (line 292), or past it, finds
\* no entry that is one second old or older.
EvictedBeforeCheck ==
    \A t \in Threads :
        pc[t] \in {"check", "sleep", "append"} =>
            \A i \in 1..Len(requests) : now[t] - requests[i] < TicksPerSecond

\* The thread that is inside wait() with the limiter's lock held changes the
\* list, and nothing else does.
ChangedUnderLock ==
    requests' # requests =>
        /\ lock # NoThread
        /\ pc[lock] \in {"evict", "append"}
        /\ pc'[lock] # pc[lock]

\* C21: in every reachable state the rate limiter's timestamp list holds at
\* most `limit` entries; it is modified only inside RateLimiter.wait() while
\* the limiter's lock is held; and every entry older than one second is
\* evicted before the admission check of each call.
C21_ListBoundedAndEvictedUnderLock ==
    /\ WithinLimit /\ EvictedBeforeCheck
    /\ [][WithinLimit' /\ EvictedBeforeCheck' /\ ChangedUnderLock]_vars

\* A call stands at its admission check with the list full, after an
\* eviction has dropped an entry.
C21_Witness ==
    \E t \in Threads :
        /\ pc[t] = "check"
        /\ Len(requests) = limit
        /\ Len(admitted) > Len(requests)

\* ---------------------------------------------------------------- C22
\* The 0-based indexes below upto that the claim gives a progress event, in
\* a batch of n records.
ClaimedShown(upto, n) == {i \in 0..(upto - 1) : i % 100 = 0 \/ i = n - 1}

\* The progress events are those of the indexes below upto: one each, in
\* increasing order, each reporting (i + 1, n).
ProgressAsClaimed(shown, upto, n) ==
    /\ Len(shown) = Cardinality(ClaimedShown(upto, n))
    /\ \A i \in ClaimedShown(upto, n) : \E k \in 1..Len(shown) : shown[k] = <<i + 1, n>>
    /\ \A k1, k2 \in 1..Len(shown) : k1 < k2 => shown[k1][1] < shown[k2][1]

ProgressEvents(evs) == SelectSeq(evs, LAMBDA e : e = <<"progress", "PROCESS">>)

\* C22: during the normalization of a batch of n >= 1 records a progress
\* event is emitted exactly for the records at 0-based index i with
\* i mod 100 = 0 or i = n - 1, in increasing order of i, each reporting
\* (i + 1, n), the last one (n, n); and a record is in the result exactly if
\* its transformation succeeds, with or without a progress event for it (no
\* batch tried holds two different records with one hash).
C22_ProgressEveryHundredAndLast ==
    /\ normPc \in {"loop", "filter"} =>
          /\ ProgressAsClaimed(normLoop.acc.progress, normLoop.i, Len(normInput))
          /\ Len(ProgressEvents(normLoop.acc.events)) = Len(normLoop.acc.progress)
    /\ (normPc = "done" /\ Len(normInput) >= 1) =>
          /\ ProgressAsClaimed(normOut.progress, Len(normInput), Len(normInput))
          /\ Len(ProgressEvents(normOut.events)) = Len(normOut.progress)
          /\ normOut.progress[Len(normOut.progress)] = <<Len(normInput), Len(normInput)>>
          /\ \A i \in RawIndexes :
                Succeeds(i) <=> \E k \in OutIndexes : normOut.result[k] = Transform(i)

\* A batch of 201 records with a hash each is done: three progress events
\* were emitted, the record at index 100 had one and failed, the other 200
\* records are the result.
C22_Witness ==
    /\ normPc = "done"
    /\ Len(normInput) = 2 * ProgressEvery + 1
    /\ normOut.progress = <<(<<1, Len(normInput)>>), (<<ProgressEvery + 1, Len(normInput)>>),
                            (<<Len(normInput), Len(normInput)>>)>>
    /\ normOut.warnings = <<ProgressEvery>>
    /\ Len(normOut.result) = 2 * ProgressEvery

\* ---------------------------------------------------------------- C23
\* The places of event e among the events of the scan.
Places(e) == {k \in 1..Len(events) : events[k] = e}
ProcessPlaces ==
    {k \in 1..Len(events) :
        events[k][2] = "PROCESS" /\ events[k][1] \in {"step", "success"}}
SuccessPlaces == {k \in 1..Len(events) : events[k][1] = "success"}

\* The order of the events of the scan so far.
ValidationFetchNormalize ==
    /\ attempts + (IF scanPc = "count" THEN 1 ELSE 0)
          = Cardinality(Places(<<"api", "REQUEST">>))
    /\ \A k \in Places(<<"api", "REQUEST">>) :
          \E j \in 1..(k - 1) : events[j] = <<"success", "VALIDATION">>
    /\ \A k \in ProcessPlaces :
          /\ fetched # <<>>
          /\ \E j \in 1..(k - 1) : events[j] = <<"success", "API">>
    /\ Cardinality(Places(<<"error", "SCAN">>)) <= 1
    /\ critical = Cardinality(Places(<<"error", "SCAN">>))
    /\ \A k \in Places(<<"error", "SCAN">>) :
          /\ \A j \in SuccessPlaces \cup Places(<<"api", "REQUEST">>) : j < k
          /\ scanReturn = Returned(<<>>)

\* A request is sent only after the validation has succeeded; once the scan
\* has emitted its error event, it emits nothing more and sends no request.
NothingAfterScanError ==
    /\ sent' # sent => Places(<<"success", "VALIDATION">>) # {}
    /\ (Places(<<"error", "SCAN">>) # {} /\ scans' = scans) =>
          /\ events' = events
          /\ sent' = sent
          /\ critical' = critical

\* C23: within one scan no HTTP request is sent before the VALIDATION
\* success event, no PROCESS step or success event is emitted before the API
\* success event of a non-empty fetch, and once the SCAN error event of a
\* failing scan has been emitted no success event and no further request
\* follows in that scan; the error event and the critical-error display
\* happen once each.
C23_ValidationThenFetchThenNormalize ==
    /\ ValidationFetchNormalize
    /\ [][ValidationFetchNormalize' /\ NothingAfterScanError]_vars

\* A scan failed after a retry: two requests, then the error event, one
\* critical-error display, and the scan has returned.
C23_Witness ==
    /\ scanPc = "returned"
    /\ attempts = 2
    /\ events[Len(events)] = <<"error", "SCAN">>
    /\ critical = 1
    /\ sent > attempts

\* ---------------------------------------------------------------- C24
\* request_count and the locks in a state.
CountsRequestsStarted ==
    /\ requestCount = sent
    /\ requestCount <= Len(admitted)
    /\ ~(scanLock # NoThread /\ lock # NoThread)

\* request_count changes by one, with the request that is started, under
\* the scanner's lock; a request is started only so.
CountedUnderLock ==
    /\ requestCount' >= requestCount
    /\ requestCount' # requestCount =>
          /\ requestCount' = requestCount + 1
          /\ scanLock = ScanThread
          /\ sent' = sent + 1
          /\ attempts' = attempts + 1
    /\ sent' # sent => requestCount' # requestCount

RunScanReturns == mainPc = "scanning" /\ mainPc' = "exit"
ScanResult == scanReturn.value
HeaderLines == 3
Body(file) == SubSeq(file.lines, HeaderLines + 1, Len(file.lines))

\* The body holds one line per distinct from value of the result, nothing
\* else.
OneLinePerFrom(body, result) ==
    /\ Len(body) = Cardinality({result[i].from : i \in 1..Len(result)})
    /\ \A i \in 1..Len(result) : \E k \in 1..Len(body) : body[k] = <<"address", result[i].from>>
    /\ \A k \in 1..Len(body) : \E i \in 1..Len(result) : body[k] = <<"address", result[i].from>>

\* The body holds, record after record in the order of the result, six
\* labelled lines and a rule.
BlockLines == 7
BlockPerRecord(body, result) ==
    /\ Len(body) = BlockLines * Len(result)
    /\ \A i \in 1..Len(result) :
          LET at == BlockLines * (i - 1)
          IN /\ body[at + 1] = <<"Hash", result[i].hash>>
             /\ body[at + 2] = <<"Method", result[i].method>>
             /\ body[at + 3] = <<"Age", result[i].age>>
             /\ body[at + 4] = <<"From", result[i].from>>
             /\ body[at + 5] = <<"To", result[i].to>>
             /\ body[at + 6] = <<"Token", result[i].token>>
             /\ body[at + 7] = <<"rule", "-">>

\* C25: run_scan writes an output file only after a scan that returned at
\* least one transaction: with an empty result it returns False and
\* creates or overwrites no file; with a non-empty one the address-only
\* format writes exactly one line per distinct from value of the result,
\* and the full format one six-line block per record in result order.
C25_FileOnlyAfterNonEmptyScan ==
    [][RunScanReturns =>
          /\ ScanResult = <<>> => runReturn' = "False" /\ outputFile' = outputFile
          /\ (ScanResult # <<>> /\ LowerWord(argv.version) = "vf") =>
                /\ outputFile'.exists
                /\ OneLinePerFrom(Body(outputFile'), ScanResult)
          /\ (ScanResult # <<>> /\ LowerWord(argv.version) = "vv") =>
                /\ outputFile'.exists
                /\ BlockPerRecord(Body(outputFile'), ScanResult)]_vars
====
